---- MODULE Spec2Model ----
(***************************************************************************)
(* Job-search orchestrator of the job controller: the in-memory task       *)
(* store (jobSearchTasks), the start-search handler (searchJobs), the      *)
(* background routine (processJobSearch), the retention timer, the poll    *)
(* handler (pollJobSearch), and the two other handlers that write the      *)
(* user's quota (getUserQuota, AdminController.updateJobSearchLimit).      *)
(*                                                                         *)
(* JavaScript runs one handler or continuation at a time: a step of the    *)
(* model is the code that runs between two awaits. A continuation that     *)
(* awaits promises that are already settled runs before any handler or     *)
(* timer does: every state in which no such continuation is due (Quiet) is *)
(* a state a poll can observe.                                             *)
(***************************************************************************)
EXTENDS Naturals, Integers, Sequences, FiniteSets, TLC

VARIABLES
    tasks,      \* jobSearchTasks: task id -> task record (ids in the Map only)
    nextId,     \* number of task ids handed out so far (uuidv4 never repeats)
    served,     \* number of start-search requests answered so far
    routine,    \* per task id: where its processJobSearch stands, and its locals
    timers,     \* task ids with a pending cleanup setTimeout
    user,       \* the stored user document: jobSearchLimit, a number or null
    lastPoll,   \* the latest poll: the task id asked for and the response
    reply,      \* the latest response of the start-search handler
    cfg,        \* the scenario of this run: how many requests, how many postings
    call,       \* the latest request to the ATS scoring API: its body and response
    requests    \* per handler that reads or writes the quota: its calls in the
                \* order they arrived, each with the await it stands at

vars == <<tasks, nextId, served, routine, timers, user, lastPoll, reply, cfg, call,
         requests>>

----------------------------------------------------------------------------
(* Bounds of the model *)

\* postings the provider returns at most, in the one-request scenario
MaxJobs == 5
\* start-search requests at most, in the several-request scenario
MaxTasks == 2
\* postings the provider returns at most, in the several-request scenario
MultiJobs == 1
\* largest stored quota at the start
MaxQuota == 1
\* postings the provider returns beyond the cap of 20, in the many-postings
\* scenario
MaxOver == 1

\* length of the short job lists of a batch-score request
MaxBatchLen == 2
\* jobs of a batch-score request beyond the cap of 50, in the long job lists
MaxBatchOver == 1
\* education entries of a resume at most
MaxEdu == 1
\* largest minimum experience of a job, in years, in the experience scenario
MaxMinYears == 10
\* longest list of required skills, and of preferred skills, of a matchSkills
\* request
MaxRequired == 2
MaxPreferred == 1
\* longest list of required skills of a job, and most words of its
\* description, in a quickScore request
MaxQuickSkills == 1
MaxWords == 2

----------------------------------------------------------------------------
(* Program constants *)

\* const batchSize = 3
batchSize == 3
\* allJobs.slice(0, 20)
jobCap == 20
\* atsScore: ... ?? null
Null == -1
\* user.jobSearchLimit = 3, for a document without a limit
defaultLimit == 3

\* overall_match_percentage values a scoring response can carry
ScoreValues == {40, 75}

\* messages of the errors JSearchService.searchJobs throws: a response of
\* status ERROR with the provider's message or without one, HTTP 429, 403 and
\* 400 (with the provider's message or without one), and any other error,
\* which is thrown again as it is
ProviderErrors ==
    {"quota exceeded upstream", "JSearch API returned error",
     "Rate limit exceeded. Try again in 60 seconds",
     "JSearch API authentication failed",
     "bad query", "Invalid request parameters",
     "timeout of 30000ms exceeded"}
\* message of an error thrown by a User lookup
DbError == "db error"
\* error: null
NoError == "null"

\* the ids uuidv4 can hand out in a run
TaskIds == 1..MaxTasks

\* the scenario of one start-search request, followed from the request to the
\* purge of its task, with the provider returning up to MaxJobs postings
\* (jobCounts: the numbers of postings the provider can return; scores: the
\* scores a scoring call can return; mayFail: the jobs whose scoring call can
\* fail; unreadable: the postings analyzeJobWithATS can fail to read;
\* quotaCalls, limitUpdates: how many quota requests and limit updates
\* are made; newLimits: the limits an update can set; concurrent: the callers
\* make their calls at any time, otherwise they make the quota requests and the
\* limit updates first and the start-search requests when those are answered;
\* nullLimit: the stored document can carry jobSearchLimit: null)
OneRequest ==
    [maxRequests |-> 1, jobCounts |-> 0..MaxJobs, scores |-> ScoreValues,
     mayFail |-> 1..MaxJobs, unreadable |-> (batchSize + 1)..MaxJobs,
     quotaCalls |-> 1, limitUpdates |-> 1,
     newLimits |-> {2}, concurrent |-> FALSE, nullLimit |-> FALSE]

\* the scenario of up to MaxTasks start-search requests of the same user, with
\* the provider returning up to MultiJobs postings to each
SeveralRequests ==
    [maxRequests |-> MaxTasks, jobCounts |-> 0..MultiJobs, scores |-> ScoreValues,
     mayFail |-> 1..MultiJobs, unreadable |-> {}, quotaCalls |-> 1,
     limitUpdates |-> 1,
     newLimits |-> {2}, concurrent |-> FALSE, nullLimit |-> FALSE]

\* the scenario of one start-search request to which the provider returns no
\* posting, or about as many postings as the cap of 20: one fewer, as many, or
\* up to MaxOver more; every call scores 75, except that the calls of the
\* first job and of the 20th can fail
ManyPostings ==
    [maxRequests |-> 1, jobCounts |-> {0} \cup ((jobCap - 1)..(jobCap + MaxOver)),
     scores |-> {75}, mayFail |-> {1, jobCap}, unreadable |-> {}, quotaCalls |-> 1,
     limitUpdates |-> 1, newLimits |-> {2}, concurrent |-> FALSE,
     nullLimit |-> FALSE]

----------------------------------------------------------------------------
(* Values *)

\* a posting as transformJobData returns it (only its identity matters here)
Posting(j) == [id |-> j]

\* the provider's result: n postings in the provider's order
AllJobs(n) == [j \in 1..n |-> Posting(j)]

\* the state of one scoring promise of the batch
Pending == [done |-> FALSE, ok |-> FALSE, score |-> Null]
\* analyzeJobWithATS caught an error and returned null
Failed == [done |-> TRUE, ok |-> FALSE, score |-> Null]
\* analyzeJobWithATS returned response.data
Scored(s) == [done |-> TRUE, ok |-> TRUE, score |-> s]

ScoreOutcomes == {Failed} \cup {Scored(s) : s \in ScoreValues}

\* noJobsMessage is not set
NoGuidance == [title |-> "", suggestions |-> <<>>, remaining |-> 0]

\* the noJobsMessage payload; the last suggestion quotes the remaining searches
Guidance(remaining) ==
    [title |-> "No Job Vacancies Found",
     suggestions |-> <<"general search", "expand location", "different keywords",
                       "search limit reduced">>,
     remaining |-> remaining]

\* NewTask created as if the provider had already answered
NewTaskAnalyzing ==
    [status |-> "analyzing", progress |-> 0, totalJobs |-> 0, processedJobs |-> 0,
     jobs |-> <<>>, completed |-> FALSE, error |-> NoError,
     atsAnalyzed |-> FALSE, noJobsMessage |-> NoGuidance]

\* the record searchJobs puts in the Map
NewTask ==
    [status |-> "searching", progress |-> 0, totalJobs |-> 0, processedJobs |-> 0,
     jobs |-> <<>>, completed |-> FALSE, error |-> NoError,
     atsAnalyzed |-> FALSE, noJobsMessage |-> NoGuidance]

\* a routine that was never started. pc: the await the routine stands at;
\* hasResume: a resumeId was passed; fetched, n: the provider returned n postings;
\* i: the loop index of the batch in flight; calls: the scoring promises made so
\* far, one per job; malformed: the resumeData is one analyzeJobWithATS cannot
\* read; thrown: the errors raised by the awaited calls outside scoring so
\* far, each with the step that raised it
Idle == [pc |-> "idle", hasResume |-> FALSE, fetched |-> FALSE, n |-> 0, i |-> 0,
         calls |-> <<>>, malformed |-> FALSE, thrown |-> <<>>]

Min(a, b) == IF a <= b THEN a ELSE b

----------------------------------------------------------------------------
(* Pure helpers of processJobSearch *)

\* Math.round(num / den) for num >= 0, den > 0
Round(num, den) == (2 * num + den) \div (2 * den)

\* Math.round((task.processedJobs / jobsToAnalyze.length) * 100)
Progress(processed, len) == Round(processed * 100, len)

\* ToAnalyze with the cap forgotten: every posting is analyzed
ToAnalyzeAll(n) == n

\* jobsToAnalyze.length, jobsToAnalyze = allJobs.slice(0, 20)
ToAnalyze(n) == Min(n, jobCap)

\* BatchEnd with the slice forgotten: the whole list is one batch
BatchEndWholeList(i, len) == len

\* index of the last job of the batch that starts after job i:
\* jobsToAnalyze.slice(i, i + batchSize)
BatchEnd(i, len) == Min(i + batchSize, len)

\* atsAnalysis?.overall_match_percentage ?? null
AtsScore(outcome) == IF outcome.ok THEN outcome.score ELSE Null

\* { ...job, atsScore }
AnalyzedJob(j, outcome) == [id |-> j, atsScore |-> AtsScore(outcome)]

\* a.atsScore || 0
ScoreOrZero(job) == IF job.atsScore = Null THEN 0 ELSE job.atsScore

\* the comparator (a, b) => scoreB - scoreA puts s[m] before s[k] when its
\* score-or-0 is larger; Array.prototype.sort is stable, so equal scores keep
\* their order
Before(s, m, k) ==
    \/ ScoreOrZero(s[m]) > ScoreOrZero(s[k])
    \/ ScoreOrZero(s[m]) = ScoreOrZero(s[k]) /\ m < k

\* SortByScore with the sort forgotten: the jobs stay in the provider's order
SortKeepsOrder(s) == s

\* task.jobs.sort(...): each job goes to the place after the jobs that come
\* before it
SortByScore(s) ==
    [p \in 1..Len(s) |->
        s[CHOOSE k \in 1..Len(s) :
              Cardinality({m \in 1..Len(s) : Before(s, m, k)}) = p - 1]]

----------------------------------------------------------------------------
(* The writes processJobSearch makes to its task record *)

\* FoundTask with the status write forgotten
FoundTaskKeepsStatus(task, n) == [task EXCEPT !.totalJobs = n]

\* task.totalJobs = allJobs.length; task.status = 'analyzing'
FoundTask(task, n) == [task EXCEPT !.totalJobs = n, !.status = "analyzing"]

\* ZeroResultTask with an empty suggestions list
ZeroResultTaskNoSuggestions(task, remaining) ==
    [task EXCEPT !.jobs = <<>>, !.processedJobs = 0, !.progress = 100,
                 !.status = "completed", !.completed = TRUE,
                 !.noJobsMessage = [Guidance(remaining) EXCEPT !.suggestions = <<>>]]

\* ZeroResultTask with the progress write forgotten
ZeroResultTaskProgressKept(task, remaining) ==
    [task EXCEPT !.jobs = <<>>, !.processedJobs = 0,
                 !.status = "completed", !.completed = TRUE,
                 !.noJobsMessage = Guidance(remaining)]

\* the zero-result finalisation
ZeroResultTask(task, remaining) ==
    [task EXCEPT !.jobs = <<>>, !.processedJobs = 0, !.progress = 100,
                 !.status = "completed", !.completed = TRUE,
                 !.noJobsMessage = Guidance(remaining)]

\* UnscoredTask with the completed flag forgotten
UnscoredTaskNotCompleted(task, n) ==
    [task EXCEPT !.jobs = AllJobs(n), !.processedJobs = n, !.progress = 100,
                 !.status = "completed", !.atsAnalyzed = FALSE]

\* UnscoredTask that keeps only the postings under the cap of the scored path
UnscoredTaskCapped(task, n) ==
    [task EXCEPT !.jobs = AllJobs(ToAnalyze(n)), !.processedJobs = ToAnalyze(n),
                 !.progress = 100, !.status = "completed", !.completed = TRUE,
                 !.atsAnalyzed = FALSE]

\* the finalisation without ATS: no resume id, or resume not found
UnscoredTask(task, n) ==
    [task EXCEPT !.jobs = AllJobs(n), !.processedJobs = n, !.progress = 100,
                 !.status = "completed", !.completed = TRUE, !.atsAnalyzed = FALSE]

\* task.jobs.push(...analyzedBatch); processedJobs; progress
AfterBatch(task, analyzedBatch, len) ==
    [task EXCEPT !.jobs = task.jobs \o analyzedBatch,
                 !.processedJobs = Len(task.jobs \o analyzedBatch),
                 !.progress = Progress(Len(task.jobs \o analyzedBatch), len)]

\* the sort and the finalisation after the last batch
FinalTask(task) ==
    [task EXCEPT !.jobs = SortByScore(task.jobs), !.status = "completed",
                 !.completed = TRUE, !.progress = 100, !.atsAnalyzed = TRUE]

\* FailedTask with the error message dropped
FailedTaskNoMessage(task, msg) ==
    [task EXCEPT !.status = "failed", !.completed = TRUE]

\* FailedTask with the completed flag forgotten
FailedTaskNotCompleted(task, msg) ==
    [task EXCEPT !.status = "failed", !.error = msg]

\* the catch block of processJobSearch
FailedTask(task, msg) ==
    [task EXCEPT !.status = "failed", !.error = msg, !.completed = TRUE]

\* user?.jobSearchLimit || 0, for the user document findById returned (found)
\* or for null
RemainingSearches(found) ==
    IF found /\ ~user.limitNull THEN user.jobSearchLimit ELSE 0

----------------------------------------------------------------------------
(* pollJobSearch *)

\* ClientStatus mapping only the scraping status
ClientStatusScrapingOnly(status) ==
    IF status = "scraping" THEN "searching" ELSE status

\* ClientStatus without the mapping
ClientStatusRaw(status) == status

\* task.status mapped to the client's status
ClientStatus(status) ==
    IF status = "scraping" \/ status = "analyzing" THEN "searching" ELSE status

\* res.status(404): 'Task not found or expired'
NotFound ==
    [http |-> 404, status |-> "", progress |-> 0, totalJobs |-> 0,
     processedJobs |-> 0, completed |-> FALSE, jobs |-> <<>>,
     atsAnalyzed |-> FALSE, noJobsMessage |-> NoGuidance, error |-> NoError]

\* PollResponse where an id that is not in the Map is reported as a failed task
PollResponseMissingAsFailed(t) ==
    IF t \notin DOMAIN tasks
    THEN [http |-> 200, status |-> "failed", progress |-> 0, totalJobs |-> 0,
          processedJobs |-> 0, completed |-> TRUE, jobs |-> <<>>,
          atsAnalyzed |-> FALSE, noJobsMessage |-> NoGuidance, error |-> NoError]
    ELSE [http |-> 200, status |-> ClientStatus(tasks[t].status),
          progress |-> tasks[t].progress, totalJobs |-> tasks[t].totalJobs,
          processedJobs |-> tasks[t].processedJobs,
          completed |-> tasks[t].completed, jobs |-> tasks[t].jobs,
          atsAnalyzed |-> tasks[t].atsAnalyzed,
          noJobsMessage |-> tasks[t].noJobsMessage, error |-> tasks[t].error]

\* the response of a poll of task id t in the current state
PollResponse(t) ==
    IF t \notin DOMAIN tasks THEN NotFound
    ELSE [http |-> 200, status |-> ClientStatus(tasks[t].status),
          progress |-> tasks[t].progress, totalJobs |-> tasks[t].totalJobs,
          processedJobs |-> tasks[t].processedJobs,
          completed |-> tasks[t].completed, jobs |-> tasks[t].jobs,
          atsAnalyzed |-> tasks[t].atsAnalyzed,
          noJobsMessage |-> tasks[t].noJobsMessage, error |-> tasks[t].error]

\* no poll was made yet
NoPoll == [id |-> 0, response |-> [NotFound EXCEPT !.http = 0]]

\* res.status(code).json(...) of the handler fn: the task id and the search
\* limit the response carries, 0 when it carries none
Reply(fn, code, taskId, searchLimit) ==
    [fn |-> fn, code |-> code, taskId |-> taskId, searchLimit |-> searchLimit]

\* no request was answered yet
NoReply == Reply("none", 0, 0, 0)

\* no handler was called yet
NoRequests ==
    [searchJobs |-> <<>>, getUserQuota |-> <<>>, updateJobSearchLimit |-> <<>>]

\* the scoring calls of a task that have not settled
InFlight(t) == {j \in 1..Len(routine[t].calls) : ~routine[t].calls[j].done}

\* the routine of task t awaits Promise.all of a batch whose promises are all
\* settled: its continuation is due in this turn of the event loop
BatchSettled(t) == routine[t].pc = "scoring" /\ InFlight(t) = {}

\* no continuation is due: the event loop can run a handler, a timer or the
\* continuation of a call that returned
Quiet == \A t \in TaskIds : ~BatchSettled(t)

----------------------------------------------------------------------------
(* Initial state: an empty Map, no routine, a user with some quota *)

\* no request to the ATS scoring API was made
NoCall == [fn |-> "none"]

\* a user document whose jobSearchLimit is the number q
Doc(q) == [jobSearchLimit |-> q, limitNull |-> FALSE]

\* a user document whose jobSearchLimit is null
NullDoc == [jobSearchLimit |-> 0, limitNull |-> TRUE]

\* the job controller after construction, for the scenario of the run; the
\* quota the user starts with is kept with the scenario
Controller(scenario) ==
    /\ tasks = <<>>
    /\ nextId = 0
    /\ served = 0
    /\ routine = [t \in TaskIds |-> Idle]
    /\ timers = {}
    /\ user \in {Doc(q) : q \in 0..MaxQuota}
                 \cup (IF scenario.nullLimit THEN {NullDoc} ELSE {})
    /\ lastPoll = NoPoll
    /\ reply = NoReply
    /\ cfg = [quota |-> IF user.limitNull THEN defaultLimit ELSE user.jobSearchLimit]
             @@ scenario
    /\ requests = NoRequests

InitWith(scenario) == Controller(scenario) /\ call = NoCall

Init == InitWith(OneRequest)

InitMany == InitWith(ManyPostings)

InitSeveral == InitWith(SeveralRequests)

\* the scenario of one start-search request to which the provider returns at
\* most one posting, with a quota request and a limit update made at any time,
\* of a user whose stored jobSearchLimit is a number or null. The
\* schema's default fills a limit that is missing when the document is read,
\* and no code of the repository stores null (a save of null fails the
\* schema's required check): such a document was written by another client of
\* the database
StoredNull ==
    [maxRequests |-> 1, jobCounts |-> 0..1, scores |-> {75}, mayFail |-> {},
     unreadable |-> {},
     quotaCalls |-> 1, limitUpdates |-> 1, newLimits |-> {2},
     concurrent |-> TRUE, nullLimit |-> TRUE]

InitStoredNull == InitWith(StoredNull)

----------------------------------------------------------------------------
(* The handlers that read and write the user's quota, one action per       *)
(* continuation: searchJobs (POST /api/jobs/search), getUserQuota (GET     *)
(* /api/jobs/quota) and AdminController.updateJobSearchLimit               *)

\* the routine as searchJobs starts it: it runs up to the provider call
Started(hasResume) == [Idle EXCEPT !.pc = "provider", !.hasResume = hasResume]

\* no user document was read
NoDoc == Doc(0)

\* a call that awaits User.findById, with the inputs the rest of its handler
\* reads. who: the user the call names ("none": no user id in the token,
\* "unknown": no such user, "user": the user); hasKeyword: role or designation
\* is given; hasResume: a resumeId is given; limitGiven, newLimit: the body has
\* a newLimit, and its value; doc: the user document findById returned
Awaiting(who, hasKeyword, hasResume, limitGiven, newLimit) ==
    [pc |-> "findById", who |-> who, hasKeyword |-> hasKeyword,
     hasResume |-> hasResume, limitGiven |-> limitGiven, newLimit |-> newLimit,
     doc |-> NoDoc]

\* a call that was answered
Answered == [Awaiting("", FALSE, FALSE, FALSE, 0) EXCEPT !.pc = "done"]

\* the callers of the scenario can call the handler fn now
MayCall(fn) ==
    \/ cfg.concurrent
    \/ IF fn = "searchJobs"
       THEN \A other \in {"getUserQuota", "updateJobSearchLimit"} :
               \A k \in DOMAIN requests[other] : requests[other][k].pc = "done"
       ELSE requests.searchJobs = <<>>

\* the handler fn is called and awaits User.findById
Calls(fn, awaiting) ==
    /\ requests' = [requests EXCEPT ![fn] = Append(@, awaiting)]
    /\ UNCHANGED <<served, reply>>

\* the handler fn answers a call before its first await
AnswersAtOnce(fn, response) ==
    /\ requests' = [requests EXCEPT ![fn] = Append(@, Answered)]
    /\ reply' = response
    /\ served' = IF fn = "searchJobs" THEN served + 1 ELSE served

\* the handler fn answers its call k
Answers(fn, k, response) ==
    /\ requests' = [requests EXCEPT ![fn][k] = Answered]
    /\ reply' = response
    /\ served' = IF fn = "searchJobs" THEN served + 1 ELSE served

\* the call k of the handler fn stands at the await pc
At(fn, k, pc) == k \in DOMAIN requests[fn] /\ requests[fn][k].pc = pc

\* searchJobs is called: without a user id it answers 401, otherwise it awaits
\* User.findById
SearchJobs(who, hasKeyword, hasResume) ==
    /\ Quiet
    /\ Len(requests.searchJobs) < cfg.maxRequests
    /\ MayCall("searchJobs")
    /\ IF who = "none"
       THEN AnswersAtOnce("searchJobs", Reply("searchJobs", 401, 0, 0))
       ELSE Calls("searchJobs", Awaiting(who, hasKeyword, hasResume, FALSE, 0))
    /\ UNCHANGED <<tasks, nextId, routine, timers, user, lastPoll, cfg, call>>

\* searchJobs from the quota check on, for its call k and the user document
\* doc: 403, 400, or the task record, the routine and 202
SearchJobsChecks(k, doc) ==
    IF doc.jobSearchLimit <= 0
    THEN /\ Answers("searchJobs", k, Reply("searchJobs", 403, 0, 0))
         /\ UNCHANGED <<tasks, nextId, routine>>
    ELSE IF ~requests.searchJobs[k].hasKeyword
    THEN /\ Answers("searchJobs", k, Reply("searchJobs", 400, 0, 0))
         /\ UNCHANGED <<tasks, nextId, routine>>
    ELSE /\ nextId' = nextId + 1
         /\ tasks' = [t \in DOMAIN tasks \cup {nextId + 1} |->
                        IF t = nextId + 1 THEN NewTask ELSE tasks[t]]
         /\ routine' = [routine EXCEPT
               ![nextId + 1] = Started(requests.searchJobs[k].hasResume)]
         /\ Answers("searchJobs", k,
                    Reply("searchJobs", 202, nextId + 1, doc.jobSearchLimit - 1))

\* User.findById of the call k of searchJobs returned: 404 without a user;
\* when the limit of the document is null the document gets 3 and is saved;
\* otherwise the checks. (A limit that is missing in the database is filled
\* with the schema's default when the document is read, so the document
\* carries a number.)
SearchJobsFindByIdReturns(k) ==
    /\ Quiet
    /\ At("searchJobs", k, "findById")
    /\ IF requests.searchJobs[k].who = "unknown"
       THEN /\ Answers("searchJobs", k, Reply("searchJobs", 404, 0, 0))
            /\ UNCHANGED <<tasks, nextId, routine>>
       ELSE IF user.limitNull
       THEN /\ requests' = [requests EXCEPT !.searchJobs[k].pc = "save",
                                            !.searchJobs[k].doc = Doc(defaultLimit)]
            /\ UNCHANGED <<tasks, nextId, routine, served, reply>>
       ELSE SearchJobsChecks(k, user)
    /\ UNCHANGED <<timers, user, lastPoll, cfg, call>>

\* user.save() of the call k of searchJobs returned: the limit of the document
\* is stored, then the checks
SearchJobsSaveReturns(k) ==
    /\ At("searchJobs", k, "save")
    /\ user' = requests.searchJobs[k].doc
    /\ SearchJobsChecks(k, requests.searchJobs[k].doc)
    /\ UNCHANGED <<timers, lastPoll, cfg, call>>

\* the call of the handler fn that awaits findById or save gets an error: the
\* catch block answers 500
Throws(fn, k) ==
    /\ Quiet
    /\ At(fn, k, "findById") \/ At(fn, k, "save")
    /\ Answers(fn, k, Reply(fn, 500, 0, 0))
    /\ UNCHANGED <<tasks, nextId, routine, timers, user, lastPoll, cfg, call>>

\* getUserQuota is called: without a user id it answers 401, otherwise it
\* awaits User.findById
GetUserQuota(who) ==
    /\ Quiet
    /\ Len(requests.getUserQuota) < cfg.quotaCalls
    /\ MayCall("getUserQuota")
    /\ IF who = "none"
       THEN AnswersAtOnce("getUserQuota", Reply("getUserQuota", 401, 0, 0))
       ELSE Calls("getUserQuota", Awaiting(who, FALSE, FALSE, FALSE, 0))
    /\ UNCHANGED <<tasks, nextId, routine, timers, user, lastPoll, cfg, call>>

\* User.findById of the call k of getUserQuota returned: 404 without a user;
\* when the limit of the document is null the document gets 3 and is saved;
\* otherwise 200 with the limit
GetUserQuotaFindByIdReturns(k) ==
    /\ Quiet
    /\ At("getUserQuota", k, "findById")
    /\ IF requests.getUserQuota[k].who = "unknown"
       THEN Answers("getUserQuota", k, Reply("getUserQuota", 404, 0, 0))
       ELSE IF user.limitNull
       THEN /\ requests' = [requests EXCEPT !.getUserQuota[k].pc = "save",
                                            !.getUserQuota[k].doc = Doc(defaultLimit)]
            /\ UNCHANGED <<served, reply>>
       ELSE Answers("getUserQuota", k,
                    Reply("getUserQuota", 200, 0, user.jobSearchLimit))
    /\ UNCHANGED <<tasks, nextId, routine, timers, user, lastPoll, cfg, call>>

\* user.save() of the call k of getUserQuota returned: the limit of the
\* document is stored, and 200 with it
GetUserQuotaSaveReturns(k) ==
    /\ At("getUserQuota", k, "save")
    /\ user' = requests.getUserQuota[k].doc
    /\ Answers("getUserQuota", k,
               Reply("getUserQuota", 200, 0, requests.getUserQuota[k].doc.jobSearchLimit))
    /\ UNCHANGED <<tasks, nextId, routine, timers, lastPoll, cfg, call>>

\* updateJobSearchLimit is called: for a caller who is no admin it answers
\* 403, otherwise it awaits User.findById
UpdateJobSearchLimit(role, who, limitGiven, newLimit) ==
    /\ Quiet
    /\ Len(requests.updateJobSearchLimit) < cfg.limitUpdates
    /\ MayCall("updateJobSearchLimit")
    /\ IF role # "admin"
       THEN AnswersAtOnce("updateJobSearchLimit",
                          Reply("updateJobSearchLimit", 403, 0, 0))
       ELSE Calls("updateJobSearchLimit",
                  Awaiting(who, FALSE, FALSE, limitGiven, newLimit))
    /\ UNCHANGED <<tasks, nextId, routine, timers, user, lastPoll, cfg, call>>

\* User.findById of the call k of updateJobSearchLimit returned: 404 without
\* a user; otherwise the document, with the new limit if one is given, is saved
UpdateFindByIdReturns(k) ==
    /\ Quiet
    /\ At("updateJobSearchLimit", k, "findById")
    /\ IF requests.updateJobSearchLimit[k].who = "unknown"
       THEN Answers("updateJobSearchLimit", k,
                    Reply("updateJobSearchLimit", 404, 0, 0))
       ELSE /\ requests' = [requests EXCEPT
                  !.updateJobSearchLimit[k].pc = "save",
                  !.updateJobSearchLimit[k].doc = user]
            /\ UNCHANGED <<served, reply>>
    /\ UNCHANGED <<tasks, nextId, routine, timers, user, lastPoll, cfg, call>>

\* the user document after a save that sets jobSearchLimit to newLimit on the
\* document doc as it was read: save() writes the field only if the
\* assignment changed it
Saved(doc, limitGiven, newLimit) ==
    IF limitGiven /\ (doc.limitNull \/ doc.jobSearchLimit # newLimit)
    THEN Doc(newLimit)
    ELSE user

\* user.save() of the call k of updateJobSearchLimit returned: 200 with the
\* limit of the document. (The save of a document whose limit is still null
\* fails the schema's required check: it throws.)
UpdateSaveReturns(k) ==
    /\ At("updateJobSearchLimit", k, "save")
    /\ requests.updateJobSearchLimit[k].limitGiven
          \/ ~requests.updateJobSearchLimit[k].doc.limitNull
    /\ LET r == requests.updateJobSearchLimit[k]
       IN /\ user' = Saved(r.doc, r.limitGiven, r.newLimit)
          /\ Answers("updateJobSearchLimit", k,
                     Reply("updateJobSearchLimit", 200, 0,
                           IF r.limitGiven THEN r.newLimit
                           ELSE r.doc.jobSearchLimit))
    /\ UNCHANGED <<tasks, nextId, routine, timers, lastPoll, cfg, call>>

\* user.save() of the call k of the handler fn returned: the handler goes on
SaveReturns(fn, k) ==
    /\ Quiet
    /\ CASE fn = "searchJobs" -> SearchJobsSaveReturns(k)
         [] fn = "getUserQuota" -> GetUserQuotaSaveReturns(k)
         [] OTHER -> UpdateSaveReturns(k)

----------------------------------------------------------------------------
(* processJobSearch, one action per continuation *)

\* the catch block, and the end of the routine
Fail(t, step, msg) ==
    /\ tasks' = IF t \in DOMAIN tasks
                THEN [tasks EXCEPT ![t] = FailedTask(tasks[t], msg)]
                ELSE tasks
    /\ routine' = [routine EXCEPT
          ![t].pc = "done",
          ![t].thrown = Append(routine[t].thrown, [step |-> step, msg |-> msg])]

\* jSearchService.searchJobs returned n postings: the routine records them and
\* awaits the quota decrement
ProviderReturns(t, n) ==
    /\ Quiet
    /\ routine[t].pc = "provider"
    /\ tasks' = [tasks EXCEPT ![t] = FoundTask(tasks[t], n)]
    /\ routine' = [routine EXCEPT ![t].pc = "decrement", ![t].fetched = TRUE,
                                   ![t].n = n]
    /\ UNCHANGED <<nextId, served, timers, user, lastPoll, reply, cfg, call, requests>>

\* jSearchService.searchJobs threw
ProviderThrows(t, msg) ==
    /\ Quiet
    /\ routine[t].pc = "provider"
    /\ Fail(t, "provider", msg)
    /\ UNCHANGED <<nextId, served, timers, user, lastPoll, reply, cfg, call, requests>>

\* $inc: { jobSearchLimit: -1 }
Decremented(u) == [u EXCEPT !.jobSearchLimit = u.jobSearchLimit - 1]

\* User.findByIdAndUpdate returned (ok) or threw (the error is caught and
\* logged; $inc on a limit that is null is an error); then the zero-result
\* lookup, the finalisation without a resume id, or the resume lookup
DecrementReturns(t, ok) ==
    /\ Quiet
    /\ routine[t].pc = "decrement"
    /\ ok => ~user.limitNull
    /\ user' = IF ok THEN Decremented(user) ELSE user
    /\ LET thrown1 == IF ok THEN routine[t].thrown
                      ELSE Append(routine[t].thrown,
                                  [step |-> "decrement", msg |-> DbError])
       IN IF routine[t].n = 0
          THEN /\ routine' = [routine EXCEPT ![t].pc = "lookupZero",
                                             ![t].thrown = thrown1]
               /\ UNCHANGED tasks
          ELSE IF ~routine[t].hasResume
          THEN /\ tasks' = [tasks EXCEPT
                     ![t] = UnscoredTask(tasks[t], routine[t].n)]
               /\ routine' = [routine EXCEPT ![t].pc = "done",
                                             ![t].thrown = thrown1]
          ELSE /\ routine' = [routine EXCEPT ![t].pc = "lookupResume",
                                             ![t].thrown = thrown1]
               /\ UNCHANGED tasks
    /\ UNCHANGED <<nextId, served, timers, lastPoll, reply, cfg, call, requests>>

\* User.findById of the zero-result branch returned the user document (found)
\* or null
ZeroLookupReturns(t, found) ==
    /\ Quiet
    /\ routine[t].pc = "lookupZero"
    /\ tasks' = [tasks EXCEPT
          ![t] = ZeroResultTask(tasks[t], RemainingSearches(found))]
    /\ routine' = [routine EXCEPT ![t].pc = "done"]
    /\ UNCHANGED <<nextId, served, timers, user, lastPoll, reply, cfg, call, requests>>

\* a User.findById of the routine threw
LookupThrows(t) ==
    /\ Quiet
    /\ routine[t].pc \in {"lookupZero", "lookupResume"}
    /\ Fail(t, "lookup", DbError)
    /\ UNCHANGED <<nextId, served, timers, user, lastPoll, reply, cfg, call, requests>>

\* AnalyzedBatch where one failed call leaves the whole batch without scores
AnalyzedBatchAllOrNothing(i, calls) ==
    [k \in 1..(Len(calls) - i) |->
        IF \E m \in (i + 1)..Len(calls) : ~calls[m].ok
        THEN AnalyzedJob(i + k, Failed)
        ELSE AnalyzedJob(i + k, calls[i + k])]

\* the jobs of the batch that starts after job i, as the batch's promises resolved
AnalyzedBatch(i, calls) == [k \in 1..(Len(calls) - i) |-> AnalyzedJob(i + k, calls[i + k])]

\* the promises of the batch that starts after job i, as batch.map makes
\* them: analyzeJobWithATS awaits axios.post, unless it cannot read the posting
\* (a title that is no string makes determineRoleType throw): then it has
\* caught the error and returned null before the batch is awaited
BatchCalls(i, len, unreadable) ==
    [k \in 1..(BatchEnd(i, len) - i) |->
        IF i + k \in unreadable THEN Failed ELSE Pending]

\* the postings of the batch that starts after job i that analyzeJobWithATS
\* cannot read. resumeData is Mixed in the schema: when its experience,
\* education or projects is not an array (malformed), analyzeJobWithATS throws
\* while it builds the request of any posting, before axios.post, and its
\* catch returns null
Unreadable(malformed, i, len) ==
    IF malformed THEN {(i + 1)..BatchEnd(i, len)}
    ELSE SUBSET (cfg.unreadable \cap (i + 1)..BatchEnd(i, len))

\* the for loop of the routine r of task t arrives at index i, with the task
\* record as it is then. When a batch is left its promises are made and the
\* routine awaits Promise.all of them. When none is left the task is sorted and
\* finalised, its cleanup is armed and the routine ends
LoopFrom(t, task, r, i) ==
    \E len \in {ToAnalyze(r.n)} :
    \E task1 \in {task} :
       IF i >= len
       THEN /\ tasks' = [tasks EXCEPT ![t] = FinalTask(task1)]
            /\ routine' = [routine EXCEPT ![t] = [r EXCEPT !.pc = "done"]]
            /\ timers' = timers \cup {t}
       ELSE /\ tasks' = [tasks EXCEPT ![t] = task1]
            /\ \E unreadable \in Unreadable(r.malformed, i, len) :
                  routine' = [routine EXCEPT
                     ![t] = [r EXCEPT !.pc = "scoring", !.i = i,
                                      !.calls = r.calls \o BatchCalls(i, len, unreadable)]]
            /\ UNCHANGED timers

\* User.findById of the resume branch returned. Without the resume, or without
\* its resumeData, the task is finalised unscored. Otherwise the for loop is
\* entered: the promises of the first batch are made and awaited
ResumeLookupReturns(t, resume) ==
    /\ Quiet
    /\ routine[t].pc = "lookupResume"
    /\ IF resume = "none"
       THEN /\ tasks' = [tasks EXCEPT ![t] = UnscoredTask(tasks[t], routine[t].n)]
            /\ routine' = [routine EXCEPT ![t].pc = "done"]
            /\ UNCHANGED timers
       ELSE LoopFrom(t, tasks[t],
                     [routine[t] EXCEPT !.malformed = (resume = "malformed")], 0)
    /\ UNCHANGED <<nextId, served, user, lastPoll, reply, cfg, call, requests>>

\* the task of the routine when the batch that starts after job i, with the
\* promises calls, has been appended
BatchAppended(t, calls) ==
    AfterBatch(tasks[t], AnalyzedBatch(routine[t].i, calls), ToAnalyze(routine[t].n))

\* await Promise.all of a batch whose promises were all settled when they were
\* made: the routine goes on in the same turn, appends the batch and goes
\* round the for loop
PromiseAllResolves(t) ==
    /\ BatchSettled(t)
    /\ LoopFrom(t, BatchAppended(t, routine[t].calls), routine[t],
                routine[t].i + batchSize)
    /\ UNCHANGED <<nextId, served, user, lastPoll, reply, cfg, call, requests>>

\* the outcomes the scoring call of job j can have in the scenario of the run
OutcomesOf(j) ==
    {o \in ScoreOutcomes : IF o.ok THEN o.score \in cfg.scores
                                    ELSE j \in cfg.mayFail}

\* the scoring call of job j settled. When it is the last of its batch,
\* Promise.all resolves in the same turn: the batch is appended and the for
\* loop goes on from the next index, up to its next await
ScoreReturns(t, j, outcome) ==
    /\ Quiet
    /\ routine[t].pc = "scoring"
    /\ j \in (routine[t].i + 1)..Len(routine[t].calls)
    /\ ~routine[t].calls[j].done
    /\ \E calls1 \in {[routine[t].calls EXCEPT ![j] = outcome]} :
         IF \E k \in (routine[t].i + 1)..Len(calls1) : ~calls1[k].done
         THEN /\ routine' = [routine EXCEPT ![t].calls = calls1]
              /\ UNCHANGED <<tasks, timers>>
         ELSE LoopFrom(t, BatchAppended(t, calls1),
                       [routine[t] EXCEPT !.calls = calls1],
                       routine[t].i + batchSize)
    /\ UNCHANGED <<nextId, served, user, lastPoll, reply, cfg, call, requests>>

\* the setTimeout callback: jobSearchTasks.delete(taskId)
TimerFires(t) ==
    /\ Quiet
    /\ t \in timers
    /\ timers' = timers \ {t}
    /\ tasks' = [u \in DOMAIN tasks \ {t} |-> tasks[u]]
    /\ UNCHANGED <<nextId, served, routine, user, lastPoll, reply, cfg, call, requests>>

\* Poll that also marks the polled task as read, in the store
PollTouchesTask(t) ==
    /\ Quiet
    /\ lastPoll' = [id |-> t, response |-> PollResponse(t)]
    /\ tasks' = IF t \in DOMAIN tasks
                THEN [tasks EXCEPT ![t].processedJobs = tasks[t].totalJobs]
                ELSE tasks
    /\ UNCHANGED <<nextId, served, routine, timers, user, reply, cfg, call, requests>>

\* pollJobSearch: GET /api/jobs/search/poll/:taskId, for an id that was handed
\* out or for one that never was
Poll(t) ==
    /\ Quiet
    /\ lastPoll' = [id |-> t, response |-> PollResponse(t)]
    /\ UNCHANGED <<tasks, nextId, served, routine, timers, user, reply, cfg, call, requests>>

Next ==
    \/ \E who \in {"none", "unknown", "user"}, k \in BOOLEAN, r \in BOOLEAN :
          SearchJobs(who, k, r)
    \/ \E k \in DOMAIN requests.searchJobs : SearchJobsFindByIdReturns(k)
    \/ \E k \in DOMAIN requests.searchJobs : Throws("searchJobs", k)
    \/ \E who \in {"none", "unknown", "user"} : GetUserQuota(who)
    \/ \E k \in DOMAIN requests.getUserQuota : GetUserQuotaFindByIdReturns(k)
    \/ \E k \in DOMAIN requests.getUserQuota : Throws("getUserQuota", k)
    \/ \E role \in {"admin", "user"}, who \in {"unknown", "user"},
          given \in BOOLEAN, newLimit \in cfg.newLimits :
          UpdateJobSearchLimit(role, who, given, newLimit)
    \/ \E k \in DOMAIN requests.updateJobSearchLimit : UpdateFindByIdReturns(k)
    \/ \E fn \in DOMAIN requests : \E k \in DOMAIN requests[fn] : SaveReturns(fn, k)
    \/ \E k \in DOMAIN requests.updateJobSearchLimit : Throws("updateJobSearchLimit", k)
    \/ \E t \in TaskIds, n \in cfg.jobCounts : ProviderReturns(t, n)
    \/ \E t \in TaskIds, msg \in ProviderErrors : ProviderThrows(t, msg)
    \/ \E t \in TaskIds, ok \in BOOLEAN : DecrementReturns(t, ok)
    \/ \E t \in TaskIds, found \in BOOLEAN : ZeroLookupReturns(t, found)
    \/ \E t \in TaskIds : LookupThrows(t)
    \/ \E t \in TaskIds, resume \in {"none", "malformed", "wellFormed"} :
          ResumeLookupReturns(t, resume)
    \/ \E t \in TaskIds : \E j \in InFlight(t) : \E o \in OutcomesOf(j) :
          ScoreReturns(t, j, o)
    \/ \E t \in TaskIds : PromiseAllResolves(t)
    \/ \E t \in TaskIds : TimerFires(t)
    \/ \E t \in 1..(cfg.maxRequests + 1) : Poll(t)

Spec == Init /\ [][Next]_vars

\* the routine of task t resumes from its provider call, its resume lookup or
\* one of its scoring calls: the call returned or threw
SettledStep(t) ==
    \/ \E n \in cfg.jobCounts : ProviderReturns(t, n)
    \/ \E msg \in ProviderErrors : ProviderThrows(t, msg)
    \/ \E resume \in {"none", "malformed", "wellFormed"} : ResumeLookupReturns(t, resume)
    \/ routine[t].pc = "lookupResume" /\ LookupThrows(t)
    \/ \E j \in InFlight(t) : \E o \in OutcomesOf(j) : ScoreReturns(t, j, o)

\* the routine of task t resumes from its quota decrement or from the user
\* lookup of its zero-result branch: the call returned or threw
QuotaStep(t) ==
    \/ \E ok \in BOOLEAN : DecrementReturns(t, ok)
    \/ \E found \in BOOLEAN : ZeroLookupReturns(t, found)
    \/ routine[t].pc = "lookupZero" /\ LookupThrows(t)

\* The provider call and each scoring call are made with a timeout, and the
\* resume lookup is taken to return or throw: a routine that awaits one of them
\* resumes. A continuation that awaits settled promises, and a pending
\* setTimeout callback, run. The quota decrement and the user lookup of the
\* zero-result branch are awaited without a timeout, and nothing makes them
\* settle. Requests and polls are up to the callers.
Fairness ==
    \A t \in TaskIds :
        /\ WF_vars(SettledStep(t))
        /\ WF_vars(PromiseAllResolves(t))
        /\ WF_vars(TimerFires(t))

\* the quota decrement and the user lookup of the zero-result branch settle too
QuotaCallsSettle == \A t \in TaskIds : WF_vars(QuotaStep(t))

FairSpec == Spec /\ Fairness

SpecSeveral == InitSeveral /\ [][Next]_vars

SpecMany == InitMany /\ [][Next]_vars

SpecStoredNull == InitStoredNull /\ [][Next]_vars

----------------------------------------------------------------------------
(* batchScore: POST /api/ats/batch-score (ATS analysis controller) *)

\* const maxBatchSize = 50
maxBatchSize == 50

\* scores atsScorer.quickScore can return
QuickScores == {0, 30, 80}

\* An element of the jobs array, by what atsScorer.quickScore(resume, job) does
\* with it: a null element (reading job.requiredSkills throws a TypeError), an
\* object on which quickScore throws (for instance requiredSkills that is not
\* an array), or a job for which quickScore returns a score
NullJob == [kind |-> "null", score |-> 0]
ThrowingJob == [kind |-> "throws", score |-> 0]
GoodJob(s) == [kind |-> "ok", score |-> s]

BatchJobs == {NullJob, ThrowingJob} \cup {GoodJob(s) : s \in QuickScores}

\* a long jobs array: n jobs scoring 30, except the first, which is a, and the
\* last, which is b
LongList(n, a, b) ==
    [j \in 1..n |-> IF j = 1 THEN a ELSE IF j = n THEN b ELSE GoodJob(30)]

\* the jobs arrays of the requests: every array of up to MaxBatchLen elements,
\* and long arrays of one fewer than 50 up to MaxBatchOver more than 50
BatchLists ==
    UNION {[1..n -> BatchJobs] : n \in 0..MaxBatchLen}
    \cup {LongList(n, a, b) : n \in (maxBatchSize - 1)..(maxBatchSize + MaxBatchOver),
                              a \in BatchJobs, b \in BatchJobs}

\* req.body of a batch-score request: resume given or not, jobs an array or not
BatchBodies ==
    {[hasResume |-> h, isArray |-> TRUE, jobs |-> l] :
        h \in BOOLEAN, l \in BatchLists}
    \cup {[hasResume |-> h, isArray |-> FALSE, jobs |-> <<>>] : h \in BOOLEAN}

\* no response was sent
NoResponse == [http |-> 0, totalJobs |-> 0, scoredJobs |-> 0, scores |-> <<>>]

\* res.status(code) of a response without data
ErrorResponse(code) == [NoResponse EXCEPT !.http = code]

\* the entry the map callback returns for the job at 0-based index: the score
\* of quickScore, or the catch block's { error: err.message, score: 0 }
ScoreEntry(job, index) ==
    IF job.kind = "ok"
    THEN [jobIndex |-> index, score |-> job.score, error |-> NoError]
    ELSE [jobIndex |-> index, score |-> 0, error |-> "quickScore error"]

\* the comparator (a, b) => (b.score || 0) - (a.score || 0), with a stable sort
EntryBefore(s, m, k) ==
    \/ s[m].score > s[k].score
    \/ s[m].score = s[k].score /\ m < k

\* scores.sort(...)
SortEntries(s) ==
    [p \in 1..Len(s) |->
        s[CHOOSE k \in 1..Len(s) :
              Cardinality({m \in 1..Len(s) : EntryBefore(s, m, k)}) = p - 1]]

\* jobs.slice(0, maxBatchSize)
JobsToScore(jobs) == SubSeq(jobs, 1, Min(Len(jobs), maxBatchSize))

\* the catch block of the map callback reads job.id: for a null element it
\* throws in its turn, out of the map, to the handler's catch block
CallbackThrows(job) == job.kind = "null"

\* the response of batchScore to a request body
BatchScore(body) ==
    IF ~body.hasResume \/ ~body.isArray THEN ErrorResponse(400)
    ELSE IF \E k \in 1..Len(JobsToScore(body.jobs)) :
               CallbackThrows(JobsToScore(body.jobs)[k])
    THEN ErrorResponse(500)
    ELSE [http |-> 200, totalJobs |-> Len(body.jobs),
          scoredJobs |-> Len(JobsToScore(body.jobs)),
          scores |-> SortEntries([k \in 1..Len(JobsToScore(body.jobs)) |->
                                    ScoreEntry(JobsToScore(body.jobs)[k], k - 1)])]

\* a batch-score request arrives at a server whose job controller is at rest
InitBatch ==
    /\ Controller(OneRequest)
    /\ call \in {[fn |-> "batchScore", body |-> b, response |-> NoResponse] :
                    b \in BatchBodies}

\* the handler answers the request
BatchScoreReturns ==
    /\ call.fn = "batchScore"
    /\ call.response = NoResponse
    /\ call' = [call EXCEPT !.response = BatchScore(call.body)]
    /\ UNCHANGED <<tasks, nextId, served, routine, timers, user, lastPoll, reply, cfg, requests>>

NextBatch == BatchScoreReturns

SpecBatch == InitBatch /\ [][NextBatch]_vars

----------------------------------------------------------------------------
(* ATSScorer._evaluateHardFilters and the checks it makes *)

\* A text is modelled by the keywords of the lookup tables that it contains
\* once lower-cased (String.prototype.includes); given is FALSE for a text that
\* is undefined, null or empty
NoText == [given |-> FALSE, has |-> {}]
Text(has) == [given |-> TRUE, has |-> has]

\* HardFilterThresholds.WORK_AUTH_KEYWORDS
WorkAuthKeywords ==
    {"citizen", "authorized", "visa", "green card", "work permit",
     "eligible to work", "authorized to work"}

\* HardFilterThresholds.MIN_EXPERIENCE_MATCH_RATIO = 0.8, in tenths
minExperienceMatchTenths == 8

\* DEGREE_LEVELS, in the order of Object.entries
DegreeTable ==
    << [degree |-> "high school", level |-> 1], [degree |-> "diploma", level |-> 2],
       [degree |-> "associate", level |-> 2],   [degree |-> "bachelor", level |-> 3],
       [degree |-> "bachelors", level |-> 3],   [degree |-> "b.tech", level |-> 3],
       [degree |-> "b.e", level |-> 3],         [degree |-> "bsc", level |-> 3],
       [degree |-> "bca", level |-> 3],         [degree |-> "master", level |-> 4],
       [degree |-> "masters", level |-> 4],     [degree |-> "m.tech", level |-> 4],
       [degree |-> "msc", level |-> 4],         [degree |-> "mca", level |-> 4],
       [degree |-> "mba", level |-> 4],         [degree |-> "phd", level |-> 5],
       [degree |-> "doctorate", level |-> 5] >>

\* the entries of the degree table whose keyword the text contains
DegreeMatches(text) ==
    {k \in 1..Len(DegreeTable) : DegreeTable[k].degree \in text.has}

\* RequiredLevel that takes the highest level mentioned
RequiredLevelHighest(text) ==
    IF DegreeMatches(text) = {} THEN 0
    ELSE CHOOSE l \in {DegreeTable[k].level : k \in DegreeMatches(text)} :
            \A k \in DegreeMatches(text) : DegreeTable[k].level <= l

\* the loop over Object.entries(DEGREE_LEVELS) that breaks at the first match
RequiredLevel(text) ==
    IF DegreeMatches(text) = {} THEN 0
    ELSE DegreeTable[CHOOSE k \in DegreeMatches(text) :
                        \A m \in DegreeMatches(text) : k <= m].level

\* the loop that takes Math.max over every match of one text
TextLevel(text) ==
    IF DegreeMatches(text) = {} THEN 0
    ELSE CHOOSE l \in {DegreeTable[k].level : k \in DegreeMatches(text)} :
            \A k \in DegreeMatches(text) : DegreeTable[k].level <= l

\* candidateLevel: the maximum over the highest degree and the education
\* entries (an entry is a string, or an object whose degree is the text)
CandidateLevel(highestDegree, educationList) ==
    CHOOSE l \in {TextLevel(highestDegree)}
                    \cup {TextLevel(educationList[k]) : k \in 1..Len(educationList)} :
        /\ l >= TextLevel(highestDegree)
        /\ \A k \in 1..Len(educationList) : l >= TextLevel(educationList[k])

\* _checkEducation
CheckEducation(highestDegree, educationList, requiredEducation) ==
    IF ~requiredEducation.given THEN TRUE
    ELSE IF ~highestDegree.given /\ Len(educationList) = 0 THEN FALSE
    ELSE IF RequiredLevel(requiredEducation) = 0 THEN TRUE
    ELSE CandidateLevel(highestDegree, educationList) >= RequiredLevel(requiredEducation)

\* _checkWorkAuthorization
CheckWorkAuthorization(resumeWorkAuth, jobDescriptionText) ==
    IF jobDescriptionText.has \cap WorkAuthKeywords = {} THEN TRUE
    ELSE IF ~resumeWorkAuth.given THEN FALSE
    ELSE resumeWorkAuth.has \cap WorkAuthKeywords # {}

\* The minimums up to 20 for which the double minRequired * 0.8 is greater
\* than the decimal number 0.8 x minRequired (3 * 0.8 is 2.4000000000000004);
\* for every other minimum up to 20 the double is the one the decimal parses to
ProductAboveDecimal == {3, 6, 7, 12, 14, 17, 19}

\* resumeExperience < minRequired * 0.8, for an experience given in tenths of
\* a year and a whole minimum up to 20
BelowThreshold(resumeTenths, minRequired) ==
    \/ resumeTenths < minRequired * minExperienceMatchTenths
    \/ /\ resumeTenths = minRequired * minExperienceMatchTenths
       /\ minRequired \in ProductAboveDecimal

\* _checkExperience, for an experience given in tenths of a year
CheckExperience(resumeTenths, minRequired) ==
    IF minRequired <= 1 THEN TRUE
    ELSE ~BelowThreshold(resumeTenths, minRequired)

\* FailureReasons without the push of the education reason
FailureReasonsWithoutEducation(workAuthMatch, experienceMatch, educationMatch) ==
    (IF workAuthMatch THEN <<>> ELSE <<"work authorization">>)
    \o (IF experienceMatch THEN <<>> ELSE <<"experience">>)

\* failureReasons: one push per failed check, in the order of the checks
FailureReasons(workAuthMatch, experienceMatch, educationMatch) ==
    (IF workAuthMatch THEN <<>> ELSE <<"work authorization">>)
    \o (IF experienceMatch THEN <<>> ELSE <<"experience">>)
    \o (IF educationMatch THEN <<>> ELSE <<"education">>)

\* the object _evaluateHardFilters returns for the results of the checks
HardFilterResult(workAuthMatch, experienceMatch, educationMatch) ==
    [passed |-> TRUE /\ workAuthMatch /\ experienceMatch /\ educationMatch,
     locationMatch |-> TRUE,
     workAuthorizationMatch |-> workAuthMatch,
     experienceMatch |-> experienceMatch,
     educationMatch |-> educationMatch,
     failureReasons |-> FailureReasons(workAuthMatch, experienceMatch, educationMatch)]

\* _evaluateHardFilters
EvaluateHardFilters(resume, jobDescription) ==
    HardFilterResult(
        CheckWorkAuthorization(resume.workAuthorization, jobDescription.description),
        CheckExperience(10 * resume.yearsOfExperience, jobDescription.minExperience),
        CheckEducation(resume.highestDegree, resume.education,
                       jobDescription.requiredEducation))

\* degree texts: none; "any graduate"; "diploma"; "bachelor of science";
\* "bachelors or masters"; "phd"
DegreeTexts ==
    {NoText, Text({}), Text({"diploma"}), Text({"bachelor"}),
     Text({"bachelor", "bachelors", "master", "masters"}), Text({"phd"})}

\* work-authorization texts of a resume
ResumeAuthTexts == {NoText, Text({}), Text({"citizen"})}

\* job descriptions: none, one that does not mention work authorization, one
\* that asks for a visa
Descriptions == {NoText, Text({}), Text({"visa"})}

\* years of experience of a resume, and minimum years a job requires (0 also
\* stands for a missing field: yearsOfExperience || 0)
ResumeYears == {0, 3, 4, 8}
RequiredYears == {0, 1, 5, 10}

Resumes ==
    {[workAuthorization |-> w, yearsOfExperience |-> y, highestDegree |-> h,
      education |-> l] :
        w \in ResumeAuthTexts, y \in ResumeYears, h \in DegreeTexts,
        l \in UNION {[1..n -> DegreeTexts] : n \in 0..MaxEdu}}

JobDescriptions ==
    {[description |-> d, minExperience |-> y, requiredEducation |-> r] :
        d \in Descriptions, y \in RequiredYears, r \in DegreeTexts}

\* the hard filters were not evaluated yet
NotEvaluated == [passed |-> FALSE, failureReasons |-> <<"not evaluated">>]

\* a resume and a job reach the scorer
InitFilters ==
    /\ Controller(OneRequest)
    /\ call \in {[fn |-> "evaluateHardFilters", body |-> [resume |-> r, job |-> j],
                   response |-> NotEvaluated] : r \in Resumes, j \in JobDescriptions}

\* the scorer evaluates the hard filters
HardFiltersReturn ==
    /\ call.fn = "evaluateHardFilters"
    /\ call.response = NotEvaluated
    /\ call' = [call EXCEPT
                  !.response = EvaluateHardFilters(call.body.resume, call.body.job)]
    /\ UNCHANGED <<tasks, nextId, served, routine, timers, user, lastPoll, reply, cfg, requests>>

NextFilters == HardFiltersReturn

SpecFilters == InitFilters /\ [][NextFilters]_vars

\* the experience check was not made yet
NotChecked == [done |-> FALSE, passed |-> FALSE]

\* a resume's experience, in tenths of a year up to MaxMinYears years, and a
\* job's minimum experience in whole years reach the experience check
InitExperience ==
    /\ Controller(OneRequest)
    /\ call \in {[fn |-> "checkExperience",
                    body |-> [resumeTenths |-> y, minRequired |-> m],
                    response |-> NotChecked] :
                      y \in 0..(10 * MaxMinYears), m \in 0..MaxMinYears}

\* the scorer makes the experience check
ExperienceCheckReturns ==
    /\ call.fn = "checkExperience"
    /\ ~call.response.done
    /\ call' = [call EXCEPT !.response =
                  [done |-> TRUE,
                   passed |-> CheckExperience(call.body.resumeTenths,
                                              call.body.minRequired)]]
    /\ UNCHANGED <<tasks, nextId, served, routine, timers, user, lastPoll, reply, cfg, requests>>

NextExperience == ExperienceCheckReturns

SpecExperience == InitExperience /\ [][NextExperience]_vars

-----------------------------------------------------------------------------
(* SkillMatcher: normalizeSkills, matchSkillsWithSynonyms, matchSkills *)

\* TextProcessor.SKILL_MAP
SKILL_MAP ==
    ("js" :> "javascript") @@ ("ts" :> "typescript") @@ ("py" :> "python") @@
    ("k8s" :> "kubernetes") @@ ("aws" :> "amazon web services") @@
    ("gcp" :> "google cloud platform") @@ ("ml" :> "machine learning") @@
    ("ai" :> "artificial intelligence") @@
    ("ci/cd" :> "continuous integration continuous deployment") @@
    ("api" :> "application programming interface")

\* this.skillSynonyms
skillSynonyms ==
    ("javascript" :> {"js", "ecmascript", "node.js", "nodejs"}) @@
    ("typescript" :> {"ts"}) @@
    ("python" :> {"py"}) @@
    ("kubernetes" :> {"k8s"}) @@
    ("docker" :> {"containerization", "containers"}) @@
    ("aws" :> {"amazon web services", "amazon cloud"}) @@
    ("gcp" :> {"google cloud platform", "google cloud"}) @@
    ("azure" :> {"microsoft azure"}) @@
    ("postgresql" :> {"postgres", "psql"}) @@
    ("mongodb" :> {"mongo"}) @@
    ("react" :> {"reactjs", "react.js"}) @@
    ("angular" :> {"angularjs", "angular.js"}) @@
    ("vue" :> {"vuejs", "vue.js"}) @@
    ("machine learning" :> {"ml", "deep learning", "neural networks"}) @@
    ("artificial intelligence" :> {"ai"}) @@
    ("continuous integration" :> {"ci", "ci/cd"}) @@
    ("continuous deployment" :> {"cd", "ci/cd"}) @@
    ("node" :> {"nodejs", "node.js"}) @@
    ("express" :> {"expressjs", "express.js"}) @@
    ("next" :> {"nextjs", "next.js"}) @@
    ("mysql" :> {"sql"}) @@
    ("sql server" :> {"mssql"}) @@
    ("restful" :> {"rest", "rest api"}) @@
    ("graphql" :> {"gql"})

\* the names and words of the model that toLowerCase() and trim() change, with
\* what they make of them; every other one is in lower case without outer
\* blanks
LowerTrimmed ==
    ("JS" :> "js") @@ (" Express " :> "express") @@ ("AWS" :> "aws") @@
    ("Lead" :> "lead")

\* skill.toLowerCase().trim(); for a word of a text and for a role type, on
\* which trim() changes nothing, toLowerCase()
ToLowerTrim(skill) ==
    IF skill \in DOMAIN LowerTrimmed THEN LowerTrimmed[skill] ELSE skill

\* TextProcessor.normalizeSkill
normalizeSkill(skill) ==
    IF skill = "" THEN ""
    ELSE LET normalized == ToLowerTrim(skill)
         IN IF normalized \in DOMAIN SKILL_MAP THEN SKILL_MAP[normalized]
            ELSE normalized

\* the synonyms the table has for a normalized skill
SynonymsOf(normSkill) ==
    IF normSkill \in DOMAIN skillSynonyms THEN skillSynonyms[normSkill] ELSE {}

\* the elements of a list
Elements(list) == {list[i] : i \in DOMAIN list}

\* normalizeSkills without the synonyms
normalizeSkillsNoSynonyms(skills) ==
    {normalizeSkill(skill) : skill \in Elements(skills) \ {""}}

\* normalizeSkills: the normalized name of every non-empty skill, and the
\* synonyms of that name
normalizeSkills(skills) ==
    UNION {{normalizeSkill(skill)} \cup SynonymsOf(normalizeSkill(skill)) :
             skill \in Elements(skills) \ {""}}

\* matchSkillsWithSynonyms without the guard for an empty list
matchSkillsWithSynonymsUnguarded(resumeSkills, jobSkills) ==
    LET normResume == normalizeSkills(resumeSkills)
        normJob == normalizeSkills(jobSkills)
        matched == {skill \in normJob : skill \in normResume}
        missing == {skill \in normJob : skill \notin normResume}
    IN [matched |-> matched, missing |-> missing,
        matchNum |-> IF normJob # {} THEN Cardinality(matched) ELSE 0,
        matchDen |-> IF normJob # {} THEN Cardinality(normJob) ELSE 1]

\* matchSkillsWithSynonyms on two arrays; matchPct is matchNum / matchDen
matchSkillsWithSynonyms(resumeSkills, jobSkills) ==
    IF resumeSkills = <<>> \/ jobSkills = <<>>
    THEN [matched |-> {}, missing |-> Elements(jobSkills),
          matchNum |-> 0, matchDen |-> 1]
    ELSE LET normResume == normalizeSkills(resumeSkills)
             normJob == normalizeSkills(jobSkills)
             matched == {skill \in normJob : skill \in normResume}
             missing == {skill \in normJob : skill \notin normResume}
         IN [matched |-> matched, missing |-> missing,
             matchNum |-> IF normJob # {} THEN Cardinality(matched) ELSE 0,
             matchDen |-> IF normJob # {} THEN Cardinality(normJob) ELSE 1]

\* Math.round(x * 100) for the percentage x = 100 * num / den: a value rounded
\* to two decimals is kept as its number of hundredths
Hundredths(num, den) == Round(10000 * num, den)

\* the result of matchSkills for a required and a preferred match and an
\* overall score of overallNum / overallDen hundredths
SkillAnalysis(required, preferred, overallNum, overallDen) ==
    [matchedRequired |-> required.matched,
     matchedPreferred |-> preferred.matched,
     missingRequired |-> required.missing,
     missingPreferred |-> preferred.missing,
     requiredMatchPercentage |-> Hundredths(required.matchNum, required.matchDen),
     preferredMatchPercentage |-> Hundredths(preferred.matchNum, preferred.matchDen),
     overallSkillScore |-> Round(overallNum, overallDen),
     totalMatched |-> Cardinality(required.matched) + Cardinality(preferred.matched),
     totalMissing |-> Cardinality(required.missing) + Cardinality(preferred.missing)]

\* matchSkills with the preferred skills left out of the overall score
matchSkillsRequiredOnly(resumeSkills, requiredSkills, preferredSkills) ==
    LET required == matchSkillsWithSynonyms(resumeSkills, requiredSkills)
        preferred == matchSkillsWithSynonyms(resumeSkills, preferredSkills)
    IN SkillAnalysis(required, preferred,
                     10000 * required.matchNum, required.matchDen)

\* matchSkills: the percentages and the overall score are in hundredths; the
\* overall score is 0.7 x the required plus 0.3 x the preferred percentage
matchSkills(resumeSkills, requiredSkills, preferredSkills) ==
    LET required == matchSkillsWithSynonyms(resumeSkills, requiredSkills)
        preferred == matchSkillsWithSynonyms(resumeSkills, preferredSkills)
    IN SkillAnalysis(required, preferred,
                     7000 * required.matchNum * preferred.matchDen
                       + 3000 * preferred.matchNum * required.matchDen,
                     required.matchDen * preferred.matchDen)

\* the skill names the requests of the model are made of
SkillNames == {"javascript", "js", "JS", "node", "express", "java"}

\* the lists of at most n skill names
SkillLists(n) == UNION {[1..k -> SkillNames] : k \in 0..n}

\* the resume skill lists of the model
ResumeSkillLists ==
    {<<>>, <<"javascript", "node">>, <<"JS">>, <<"java">>, <<"node">>,
     <<" Express ", "java">>, <<"", "js">>, <<"express", "javascript", "java">>}

\* the function was not called yet
NotDone == [done |-> FALSE]

\* a matchSkills request reaches the controller
InitSkills ==
    /\ Controller(OneRequest)
    /\ call \in {[fn |-> "matchSkills",
                    body |-> [resumeSkills |-> s, requiredSkills |-> r,
                              preferredSkills |-> p],
                    response |-> NotDone] :
                      s \in ResumeSkillLists, r \in SkillLists(MaxRequired),
                      p \in SkillLists(MaxPreferred)}

\* POST /api/ats/match-skills answers with the analysis
MatchSkillsReturns ==
    /\ call.fn = "matchSkills"
    /\ ~call.response.done
    /\ call' = [call EXCEPT !.response =
                  [done |-> TRUE,
                   analysis |-> matchSkills(call.body.resumeSkills,
                                            call.body.requiredSkills,
                                            call.body.preferredSkills)]]
    /\ UNCHANGED <<tasks, nextId, served, routine, timers, user, lastPoll, reply, cfg, requests>>

NextSkills == MatchSkillsReturns

SpecSkills == InitSkills /\ [][NextSkills]_vars

-----------------------------------------------------------------------------
(* TextProcessor and ATSScorer.quickScore *)

\* A text is the list of its words; the words of the model are separated by
\* single blanks and have no character that cleanText replaces.

\* TextProcessor.STOPWORDS
STOPWORDS ==
    {"the", "a", "an", "and", "or", "but", "in", "on", "at", "to", "for",
     "of", "with", "by", "from", "as", "is", "was", "are", "were", "been",
     "be", "have", "has", "had", "do", "does", "did", "will", "would",
     "should", "could", "may", "might", "must", "can", "this", "that",
     "these", "those", "i", "you", "he", "she", "it", "we", "they", "what",
     "which", "who", "when", "where", "why", "how", "all", "each", "every",
     "both", "few", "more", "most", "other", "some", "such", "no", "not",
     "only", "own", "same", "so", "than", "too", "very", "just", "also",
     "now", "here", "there", "then", "once", "any", "about", "into",
     "through", "during", "before", "after", "above", "below", "between",
     "under", "again", "further", "while", "our", "your", "their", "its",
     "my", "his", "her", "am", "being", "having", "doing", "work", "working",
     "experience", "using", "used", "including", "include", "includes"}

\* this.techKeywords
techKeywords ==
    {"python", "java", "javascript", "typescript", "c++", "c#", "c", "ruby",
     "php", "go", "golang", "rust", "swift", "kotlin", "scala", "perl", "r",
     "matlab", "julia", "dart", "elixir", "haskell", "clojure",
     "objective-c", "groovy", "lua", "shell", "bash", "powershell", "vba",
     "cobol", "fortran", "react", "reactjs", "react.js", "angular",
     "angularjs", "vue", "vuejs", "vue.js", "svelte", "next.js", "nextjs",
     "nuxt", "gatsby", "ember", "backbone", "jquery", "bootstrap",
     "tailwind", "material-ui", "mui", "ant design", "chakra ui", "sass",
     "scss", "less", "styled-components", "emotion", "redux", "mobx",
     "recoil", "zustand", "webpack", "vite", "rollup", "parcel", "babel",
     "eslint", "prettier", "jest", "cypress", "playwright", "selenium",
     "webdriver", "storybook", "node", "nodejs", "node.js", "express",
     "expressjs", "nestjs", "fastify", "koa", "django", "flask", "fastapi",
     "pyramid", "tornado", "spring", "spring boot", "springboot",
     "hibernate", "struts", "jsf", "play", "laravel", "symfony",
     "codeigniter", "yii", "rails", "ruby on rails", "sinatra", "asp.net",
     ".net", "dotnet", ".net core", "entity framework", "gin", "echo",
     "beego", "fiber", "actix", "rocket", "warp", "react native", "flutter",
     "ionic", "xamarin", "cordova", "phonegap", "android", "ios", "swift ui",
     "jetpack compose", "kotlin multiplatform", "sql", "mysql", "postgresql",
     "postgres", "oracle", "sql server", "mssql", "sqlite", "mariadb", "db2",
     "teradata", "snowflake", "redshift", "bigquery", "aurora",
     "cockroachdb", "nosql", "mongodb", "cassandra", "couchdb", "dynamodb",
     "neo4j", "redis", "memcached", "elasticsearch", "solr", "firebase",
     "firestore", "realm", "couchbase", "hbase", "riak", "aws",
     "amazon web services", "ec2", "s3", "lambda", "cloudformation",
     "cloudfront", "route53", "rds", "sqs", "sns", "kinesis", "azure",
     "microsoft azure", "azure devops", "gcp", "google cloud",
     "google cloud platform", "heroku", "digitalocean", "linode", "vultr",
     "cloudflare", "vercel", "netlify", "render", "docker", "kubernetes",
     "k8s", "openshift", "rancher", "helm", "istio", "jenkins", "gitlab ci",
     "github actions", "circleci", "travis ci", "teamcity", "bamboo",
     "azure pipelines", "argo cd", "flux", "spinnaker", "terraform",
     "ansible", "puppet", "chef", "saltstack", "vagrant", "packer", "consul",
     "vault", "prometheus", "grafana", "datadog", "new relic", "splunk",
     "elk stack", "logstash", "kibana", "fluentd", "git", "github", "gitlab",
     "bitbucket", "svn", "mercurial", "perforce", "git flow",
     "trunk based development", "junit", "testng", "mockito", "pytest",
     "unittest", "nose", "mocha", "jasmine", "karma", "protractor",
     "cucumber", "behave", "rspec", "xunit", "nunit", "mstest", "postman",
     "insomnia", "jmeter", "gatling", "locust", "k6", "kafka", "rabbitmq",
     "activemq", "zeromq", "nats", "pulsar", "mqtt", "redis pub/sub",
     "amazon sqs", "google pub/sub", "azure service bus", "rest", "restful",
     "graphql", "grpc", "soap", "websocket", "http", "https", "tcp", "udp",
     "oauth", "jwt", "saml", "openid", "microservices", "monolith",
     "serverless", "event driven", "cqrs", "event sourcing",
     "domain driven design", "ddd", "clean architecture",
     "hexagonal architecture", "mvc", "mvvm", "mvp", "soa", "rest api",
     "machine learning", "ml", "deep learning", "neural networks", "cnn",
     "rnn", "lstm", "gru", "transformer", "bert", "gpt", "llm", "nlp",
     "computer vision", "opencv", "tensorflow", "pytorch", "keras",
     "scikit-learn", "sklearn", "xgboost", "lightgbm", "catboost", "pandas",
     "numpy", "scipy", "matplotlib", "seaborn", "plotly", "hugging face",
     "langchain", "llama", "stable diffusion", "yolo", "hadoop", "spark",
     "pyspark", "hive", "pig", "sqoop", "flume", "airflow", "luigi",
     "prefect", "dagster", "dbt", "databricks", "presto", "trino", "flink",
     "storm", "samza", "beam", "dataflow", "linux", "unix", "ubuntu",
     "centos", "rhel", "debian", "fedora", "windows", "macos", "vim",
     "emacs", "vscode", "intellij", "eclipse", "netbeans", "pycharm",
     "webstorm", "agile", "scrum", "kanban", "lean", "devops", "ci/cd",
     "tdd", "test driven development", "bdd", "behavior driven development",
     "pair programming", "code review", "solid", "design patterns",
     "webscraping", "web scraping", "beautifulsoup", "scrapy", "nginx",
     "apache", "tomcat", "iis", "load balancing", "caching", "cdn", "oauth2",
     "authentication", "authorization", "encryption", "ssl", "tls", "vpn",
     "api gateway", "service mesh", "etl", "data warehouse", "data lake",
     "olap", "oltp", "indexing", "sharding", "replication", "partitioning",
     "normalization"}

\* the words the texts of the model are made of
WordNames == {"javascript", "express", "node.js", "AWS", "java", "developer",
              "the", "c"}

\* the list without the repetitions of an element, as new Set(list) keeps it
Distinct(list) ==
    LET first == {i \in DOMAIN list : \A j \in 1..(i - 1) : list[j] # list[i]}
    IN [k \in 1..Cardinality(first) |->
          list[CHOOSE i \in first : Cardinality({j \in first : j < i}) = k - 1]]

\* TextProcessor.extractKeywords, minLength = 2: the words of the cleaned
\* text (cleanText puts a word of the model in lower case) that are long
\* enough and no stopwords
extractKeywords(text) ==
    LET words == [i \in DOMAIN text |-> ToLowerTrim(text[i])]
        kept(word) == Len(word) >= 2 /\ word \notin STOPWORDS
    IN SelectSeq(words, kept)

\* TextProcessor.extractTechnicalTerms: the matches of the acronym pattern in
\* the order of the text, then the matches of the pattern of names with a dot,
\* in lower case, each once. Among the words of the model the acronym pattern
\* matches AWS and the dotted pattern node.js; the patterns of the names in
\* ++ and in # match none
extractTechnicalTerms(text) ==
    LET acronym(word) == word = "AWS"
        versioned(word) == word = "node.js"
        matches == SelectSeq(text, acronym) \o SelectSeq(text, versioned)
    IN Distinct([i \in DOMAIN matches |-> ToLowerTrim(matches[i])])

\* SkillMatcher.extractSkillsFromText
extractSkillsFromText(text) ==
    LET allTerms == Distinct(extractTechnicalTerms(text) \o extractKeywords(text))
        known(term) == ToLowerTrim(term) \in techKeywords
    IN SelectSeq(allTerms, known)

\* TextProcessor.calculateKeywordOverlap as overlap / size: the keywords of
\* text2 that text1 has, of the keywords of text2; 0 / 1 when text2 has none
calculateKeywordOverlap(text1, text2) ==
    LET keywords1 == Elements(extractKeywords(text1))
        keywords2 == Elements(extractKeywords(text2))
    IN IF keywords2 = {} THEN [overlap |-> 0, size |-> 1]
       ELSE [overlap |-> Cardinality(keywords2 \cap keywords1),
             size |-> Cardinality(keywords2)]

\* a field that the object does not have
Absent == [given |-> FALSE, list |-> <<>>]

\* a field that holds the list
Given(list) == [given |-> TRUE, list |-> list]

\* [skills.join(' '), workExperience.join(' '), summary].join(' '): the
\* skills are words of the text
ResumeText(resume) ==
    resume.skills \o resume.workExperience \o resume.summary

\* the result of quickScore for a skill analysis and a keyword overlap: the
\* score and the percentages in hundredths
QuickResult(skillAnalysis, keywordMatch) ==
    [done |-> TRUE,
     score |-> Round(6 * skillAnalysis.overallSkillScore * keywordMatch.size
                       + 40000 * keywordMatch.overlap,
                     10 * keywordMatch.size),
     matchedSkills |-> skillAnalysis.matchedRequired,
     missingSkills |-> skillAnalysis.missingRequired,
     skillMatchPercentage |-> skillAnalysis.requiredMatchPercentage,
     keywordMatchPercentage |-> Hundredths(keywordMatch.overlap,
                                           keywordMatch.size)]

\* job.requiredSkills || extractSkillsFromText(job.description): an array,
\* empty or not, is truthy
JobSkills(job) ==
    IF job.requiredSkills.given THEN job.requiredSkills.list
    ELSE extractSkillsFromText(job.description)

\* ATSScorer.quickScore
quickScore(resume, job) ==
    QuickResult(matchSkills(resume.skills, JobSkills(job), <<>>),
                calculateKeywordOverlap(ResumeText(resume), job.description))

\* the texts of at most n words
Texts(n) == UNION {[1..k -> WordNames] : k \in 0..n}

\* the resumes of the quick-score requests: resume.skills (absent: []), the
\* words of resume.workExperience and of resume.summary
QuickResumes ==
    [skills : {<<>>, <<"javascript">>, <<"JS", "node">>, <<"java">>},
     workExperience : {<<>>, <<"developer">>},
     summary : {<<>>, <<"java", "developer">>}]

\* the jobs of the quick-score requests: requiredSkills absent or a list, as
\* long as MaxQuickSkills, and the words of the description
QuickJobs ==
    [requiredSkills : {Absent} \cup {Given(l) : l \in SkillLists(MaxQuickSkills)},
     description : Texts(MaxWords)]

InitQuick ==
    /\ Controller(OneRequest)
    /\ call \in {[fn |-> "quickScore", body |-> [resume |-> r, job |-> j],
                    response |-> NotDone] : r \in QuickResumes, j \in QuickJobs}

\* POST /api/ats/quick-score answers with the score
QuickScoreReturns ==
    /\ call.fn = "quickScore"
    /\ ~call.response.done
    /\ call' = [call EXCEPT !.response =
                  quickScore(call.body.resume, call.body.job)]
    /\ UNCHANGED <<tasks, nextId, served, routine, timers, user, lastPoll, reply, cfg, requests>>

NextQuick == QuickScoreReturns

SpecQuick == InitQuick /\ [][NextQuick]_vars

-----------------------------------------------------------------------------
(* ATSScorer.analyze: relevance scores, feedback and recommendations *)

\* A score is kept as a whole number of 1/300 of a point, which every score of
\* the model is; a score rounded to two decimals is kept as its hundredths.
Unit == 300

\* Math.round(score * 100), the hundredths of a score
Reported(score) == Round(100 * score, Unit)

\* ATSWeights.SOFTWARE_ENGINEER, in hundredths
SOFTWARE_ENGINEER ==
    [skills |-> 35, experience |-> 30, projects |-> 15, keywords |-> 10,
     summary |-> 5, education |-> 5]

\* ATSWeights.FRESHER_INTERN, in hundredths
FRESHER_INTERN ==
    [skills |-> 30, projects |-> 25, education |-> 20, keywords |-> 10,
     summary |-> 10, experience |-> 5]

\* ATSWeights.MANAGER_LEAD, in hundredths
MANAGER_LEAD ==
    [experience |-> 40, keywords |-> 20, skills |-> 20, summary |-> 10,
     education |-> 10, projects |-> 0]

\* ATSWeights.DEFAULT, in hundredths
DEFAULT ==
    [skills |-> 35, experience |-> 30, projects |-> 15, keywords |-> 10,
     summary |-> 5, education |-> 5]

\* weightsMap of getWeights
weightsMap ==
    ("software_engineer" :> SOFTWARE_ENGINEER) @@ ("developer" :> SOFTWARE_ENGINEER) @@
    ("engineer" :> SOFTWARE_ENGINEER) @@ ("fresher" :> FRESHER_INTERN) @@
    ("intern" :> FRESHER_INTERN) @@ ("entry_level" :> FRESHER_INTERN) @@
    ("manager" :> MANAGER_LEAD) @@ ("lead" :> MANAGER_LEAD) @@
    ("senior" :> SOFTWARE_ENGINEER) @@ ("default" :> DEFAULT)

\* ATSWeights.getWeights; the role type "" is a missing role type
getWeights(roleType) ==
    LET lower == ToLowerTrim(roleType)
    IN IF lower \in DOMAIN weightsMap THEN weightsMap[lower] ELSE DEFAULT

\* TextProcessor.calculateTextSimilarity: 100 x the keywords the two texts
\* share, over the keywords either has; 0 when a text is empty or has none
calculateTextSimilarity(text1, text2) ==
    LET keywords1 == Elements(extractKeywords(text1))
        keywords2 == Elements(extractKeywords(text2))
    IN IF text1 = <<>> \/ text2 = <<>> THEN 0
       ELSE IF keywords1 = {} \/ keywords2 = {} THEN 0
       ELSE (100 * Unit * Cardinality(keywords1 \cap keywords2))
               \div Cardinality(keywords1 \cup keywords2)

\* list.join(' ') of a list of texts: their words, one text after the other
RECURSIVE Join(_)
Join(texts) == IF texts = <<>> THEN <<>> ELSE Head(texts) \o Join(Tail(texts))

\* _scoreSkills
scoreSkills(resume, jobDescription) ==
    (Unit \div 100) * matchSkills(resume.skills, jobDescription.requiredSkills,
                                   jobDescription.preferredSkills).overallSkillScore

\* _scoreExperience
scoreExperience(resume, jobDescription) ==
    LET minExp == IF jobDescription.minExperience > 1
                  THEN jobDescription.minExperience ELSE 1
        expScore == Min((100 * Unit * resume.yearsOfExperience) \div minExp,
                        100 * Unit)
        relevance == calculateTextSimilarity(resume.workExperience,
                                             jobDescription.description.words)
    IN Min((4 * expScore + 6 * relevance) \div 10, 100 * Unit)

\* _scoreProjects without the cap at 100
scoreProjectsUncapped(resume, jobDescription) ==
    IF resume.projects = <<>> THEN 0
    ELSE calculateTextSimilarity(Join(resume.projects),
                                 jobDescription.description.words)
           + Unit * Min(Len(resume.projects) * 5, 20)

\* _scoreProjects
scoreProjects(resume, jobDescription) ==
    IF resume.projects = <<>> THEN 0
    ELSE Min(calculateTextSimilarity(Join(resume.projects),
                                     jobDescription.description.words)
               + Unit * Min(Len(resume.projects) * 5, 20),
             100 * Unit)

\* _scoreKeywords
scoreKeywords(resume, jobDescription) ==
    LET resumeText == resume.skills \o resume.workExperience
                         \o Join(resume.projects) \o resume.summary
        overlap == calculateKeywordOverlap(resumeText,
                                           jobDescription.description.words)
    IN Min((100 * Unit * overlap.overlap) \div overlap.size, 100 * Unit)

\* _scoreSummary
scoreSummary(resume, jobDescription) ==
    IF resume.summary = <<>> THEN 50 * Unit
    ELSE calculateTextSimilarity(resume.summary, jobDescription.description.words)

\* _scoreEducation
scoreEducation(resume, jobDescription) ==
    IF ~jobDescription.requiredEducation.given THEN 100 * Unit
    ELSE IF ~resume.education.given /\ ~resume.highestDegree.given THEN 0
    ELSE IF CheckEducation(resume.highestDegree, resume.education.list,
                           jobDescription.requiredEducation)
         THEN 100 * Unit
    ELSE 50 * Unit

\* relevanceScore = null
NullScore == [given |-> FALSE]

\* The sums of the FRESHER_INTERN weights that are on a tie of the second
\* decimal in exact arithmetic while the sum of doubles the code makes, in the
\* order skills, experience, projects, keywords, summary, education, is just
\* below the tie, so that Math.round(weightedTotal * 100) gives the hundredth
\* below: the six scores of each, in hundredths. Every other sum of the scores
\* of the model rounds as the exact sum does, the tie upwards.
SumBelowTie ==
    {<<4375, 3200, 10000, 10000, 0, 10000>>,
     <<4375, 3200, 10000, 10000, 5000, 5000>>,
     <<4375, 3200, 10000, 10000, 5000, 10000>>,
     <<4375, 3200, 10000, 10000, 10000, 5000>>,
     <<4375, 3200, 10000, 10000, 10000, 10000>>,
     <<4375, 9200, 10000, 10000, 0, 10000>>,
     <<4375, 9200, 10000, 10000, 5000, 5000>>,
     <<4375, 9200, 10000, 10000, 5000, 10000>>,
     <<4375, 9200, 10000, 10000, 10000, 5000>>,
     <<7375, 3200, 4500, 10000, 0, 10000>>,
     <<7375, 3200, 4500, 10000, 5000, 10000>>,
     <<7375, 3200, 10000, 10000, 0, 5000>>,
     <<7375, 3200, 10000, 10000, 0, 10000>>,
     <<7375, 3200, 10000, 10000, 5000, 5000>>,
     <<7375, 3200, 10000, 10000, 10000, 0>>,
     <<7375, 3200, 10000, 10000, 10000, 5000>>,
     <<7375, 9200, 0, 10000, 10000, 10000>>,
     <<7375, 9200, 10000, 10000, 0, 5000>>,
     <<7375, 9200, 10000, 10000, 0, 10000>>,
     <<7375, 9200, 10000, 10000, 5000, 0>>,
     <<7375, 9200, 10000, 10000, 5000, 5000>>,
     <<7375, 9200, 10000, 10000, 10000, 0>>,
     <<7375, 9200, 10000, 10000, 10000, 5000>>}

\* _calculateRelevanceScore without custom weights: the six scores and the
\* weighted total, rounded to two decimals
calculateRelevanceScore(resume, jobDescription) ==
    LET weights == getWeights(jobDescription.roleType)
        skillsScore == scoreSkills(resume, jobDescription)
        experienceScore == scoreExperience(resume, jobDescription)
        projectsScore == scoreProjects(resume, jobDescription)
        keywordsScore == scoreKeywords(resume, jobDescription)
        summaryScore == scoreSummary(resume, jobDescription)
        educationScore == scoreEducation(resume, jobDescription)
        weightedTotal == skillsScore * weights.skills
                           + experienceScore * weights.experience
                           + projectsScore * weights.projects
                           + keywordsScore * weights.keywords
                           + summaryScore * weights.summary
                           + educationScore * weights.education
    IN [given |-> TRUE,
        skillsScore |-> Reported(skillsScore),
        experienceScore |-> Reported(experienceScore),
        projectsScore |-> Reported(projectsScore),
        keywordsScore |-> Reported(keywordsScore),
        summaryScore |-> Reported(summaryScore),
        educationScore |-> Reported(educationScore),
        weightedTotal |->
            IF weights = FRESHER_INTERN
                  /\ <<Reported(skillsScore), Reported(experienceScore),
                        Reported(projectsScore), Reported(keywordsScore),
                        Reported(summaryScore), Reported(educationScore)>>
                        \in SumBelowTie
                  /\ 2 * (weightedTotal % Unit) = Unit
            THEN Round(weightedTotal, Unit) - 1
            ELSE Round(weightedTotal, Unit),
        weightsUsed |-> weights]

\* _generateFeedback: the sentences of the feedback, by their subject
generateFeedback(hardFilters, relevanceScore, skillAnalysis) ==
    IF ~hardFilters.passed THEN <<"screening">> \o hardFilters.failureReasons
    ELSE IF ~relevanceScore.given THEN <<"unable">>
    ELSE <<IF relevanceScore.weightedTotal >= 8000 THEN "excellent"
           ELSE IF relevanceScore.weightedTotal >= 6000 THEN "good"
           ELSE IF relevanceScore.weightedTotal >= 4000 THEN "moderate"
           ELSE "limited">>
         \o (IF relevanceScore.skillsScore < 7000 THEN <<"skills">> ELSE <<>>)
         \o (IF skillAnalysis.totalMissing > 0 THEN <<"missing">> ELSE <<>>)
         \o (IF relevanceScore.experienceScore < 7000 THEN <<"experience">> ELSE <<>>)

\* recommendations.slice(0, 5)
FirstFive(recommendations) ==
    SubSeq(recommendations, 1, Min(Len(recommendations), 5))

\* the recommendations before the cut, by their subject
Recommended(skillAnalysis, relevanceScore, resume, jobDescription) ==
    (IF skillAnalysis.missingRequired # {} THEN <<"skills">> ELSE <<>>)
    \o (IF relevanceScore.given
        THEN (IF relevanceScore.experienceScore < 7000
              THEN <<"experience">> ELSE <<>>)
             \o (IF relevanceScore.projectsScore < 5000
                    /\ jobDescription.roleType # "manager"
                 THEN <<"projects">> ELSE <<>>)
             \o (IF relevanceScore.keywordsScore < 6000
                 THEN <<"keywords">> ELSE <<>>)
             \o (IF resume.summary = <<>> \/ relevanceScore.summaryScore < 5000
                 THEN <<"summary">> ELSE <<>>)
        ELSE <<>>)
    \o (IF resume.certifications = <<>> /\ skillAnalysis.missingRequired # {}
        THEN <<"certifications">> ELSE <<>>)

\* _generateRecommendations without the cut to five
generateRecommendationsUncut(skillAnalysis, relevanceScore, resume, jobDescription) ==
    Recommended(skillAnalysis, relevanceScore, resume, jobDescription)

\* _generateRecommendations
generateRecommendations(skillAnalysis, relevanceScore, resume, jobDescription) ==
    FirstFive(Recommended(skillAnalysis, relevanceScore, resume, jobDescription))

\* the resume as the hard filters read it: resume.education || []
ForFilters(resume) ==
    [workAuthorization |-> resume.workAuthorization,
     yearsOfExperience |-> resume.yearsOfExperience,
     highestDegree |-> resume.highestDegree,
     education |-> resume.education.list]

\* the result of analyze for the hard filters, the relevance score and the
\* skill analysis
Analysis(hardFilters, relevanceScore, skillAnalysis, resume, jobDescription) ==
    [done |-> TRUE,
     hardFilters |-> hardFilters,
     relevanceScore |-> relevanceScore,
     overallMatchPercentage |->
         IF relevanceScore.given
         THEN Round(100 * relevanceScore.weightedTotal, 100) ELSE 0,
     matchedSkills |-> skillAnalysis.matchedRequired,
     missingSkills |-> skillAnalysis.missingRequired,
     skillAnalysis |-> skillAnalysis,
     feedback |-> generateFeedback(hardFilters, relevanceScore, skillAnalysis),
     recommendations |-> generateRecommendations(skillAnalysis, relevanceScore,
                                                 resume, jobDescription),
     roleType |-> IF jobDescription.roleType = "" THEN "default"
                  ELSE jobDescription.roleType]

\* analyze with the relevance score calculated whatever the hard filters say
analyzeUnfiltered(resume, jobDescription) ==
    Analysis(EvaluateHardFilters(ForFilters(resume), jobDescription),
             calculateRelevanceScore(resume, jobDescription),
             matchSkills(resume.skills, jobDescription.requiredSkills,
                         jobDescription.preferredSkills),
             resume, jobDescription)

\* ATSScorer.analyze without custom weights
analyze(resume, jobDescription) ==
    LET hardFilters == EvaluateHardFilters(ForFilters(resume), jobDescription)
    IN Analysis(hardFilters,
                IF hardFilters.passed
                THEN calculateRelevanceScore(resume, jobDescription)
                ELSE NullScore,
                matchSkills(resume.skills, jobDescription.requiredSkills,
                            jobDescription.preferredSkills),
                resume, jobDescription)

\* a job description text of the model: its words, and the work-authorization
\* keywords among them (the model has no word that contains another)
Description(words) ==
    [given |-> words # <<>>,
     has |-> {word \in Elements(words) : word \in WorkAuthKeywords},
     words |-> words]

\* a project of a resume: the words of its text
JavaProject == <<"java", "developer">>

\* the resumes of the analyze requests
AnalyzedResumes ==
    [skills : {<<>>, <<"javascript", "node">>, <<"java">>},
     yearsOfExperience : {0, 8},
     workExperience : {<<>>, <<"java", "developer">>},
     projects : {<<>>, <<JavaProject>>,
                 <<JavaProject, <<"express">>, JavaProject, JavaProject, JavaProject>>},
     summary : {<<>>, <<"java", "developer">>, <<"express">>},
     education : {Given(<<>>)},
     highestDegree : {Text({"bachelor"})},
     workAuthorization : {NoText, Text({"citizen"})},
     certifications : {<<>>, <<"aws certified">>}]

\* the jobs of the analyze requests
AnalyzedJobs ==
    [description : {Description(<<>>), Description(<<"java", "developer">>),
                    Description(<<"java", "developer", "visa">>),
                    Description(<<"javascript", "express">>)},
     requiredSkills : {<<>>, <<"js", "express">>, <<"java">>},
     preferredSkills : {<<>>, <<"node">>},
     minExperience : {0, 10},
     requiredEducation : {NoText, Text({"master"})},
     roleType : {"", "manager", "Lead"}]

InitAnalyze ==
    /\ Controller(OneRequest)
    /\ user.jobSearchLimit = 0
    /\ call \in {[fn |-> "analyze", body |-> [resume |-> r, jobDescription |-> j],
                    response |-> NotDone] :
                      r \in AnalyzedResumes, j \in AnalyzedJobs}

\* POST /api/ats/analyze answers with the analysis
AnalyzeReturns ==
    /\ call.fn = "analyze"
    /\ ~call.response.done
    /\ call' = [call EXCEPT !.response =
                  analyze(call.body.resume, call.body.jobDescription)]
    /\ UNCHANGED <<tasks, nextId, served, routine, timers, user, lastPoll, reply, cfg, requests>>

NextAnalyze == AnalyzeReturns

SpecAnalyze == InitAnalyze /\ [][NextAnalyze]_vars

\* the resumes whose relevance is scored: the fields the six scores read
ScoredResumes ==
    [skills : {<<>>, <<"javascript", "node">>, <<"java">>},
     yearsOfExperience : {0, 8},
     workExperience : {<<>>, <<"java", "developer">>},
     projects : {<<>>, <<JavaProject>>,
                 <<JavaProject, <<"express">>, JavaProject, JavaProject, JavaProject>>},
     summary : {<<>>, <<"java", "developer">>, <<"express">>},
     education : {Absent, Given(<<>>)},
     highestDegree : {NoText, Text({"bachelor"})}]

\* the jobs they are scored for
ScoredJobs ==
    [description : {Description(<<>>), Description(<<"java", "developer">>),
                    Description(<<"javascript", "express">>)},
     requiredSkills : {<<>>, <<"js", "express">>, <<"java">>},
     preferredSkills : {<<>>, <<"node">>},
     minExperience : {0, 10},
     requiredEducation : {NoText, Text({"master"})},
     roleType : {"", "manager", "fresher", "engineer"}]

InitRelevance ==
    /\ Controller(OneRequest)
    /\ user.jobSearchLimit = 0
    /\ call \in {[fn |-> "calculateRelevanceScore",
                    body |-> [resume |-> r, jobDescription |-> j],
                    response |-> NullScore] : r \in ScoredResumes, j \in ScoredJobs}

\* the scorer calculates the relevance score of a resume for a job
RelevanceScoreReturns ==
    /\ call.fn = "calculateRelevanceScore"
    /\ ~call.response.given
    /\ call' = [call EXCEPT !.response =
                  calculateRelevanceScore(call.body.resume, call.body.jobDescription)]
    /\ UNCHANGED <<tasks, nextId, served, routine, timers, user, lastPoll, reply, cfg, requests>>

NextRelevance == RelevanceScoreReturns

SpecRelevance == InitRelevance /\ [][NextRelevance]_vars

----------------------------------------------------------------------------
(* Properties *)

Terminal == {"completed", "failed"}

AllowedStatusSteps ==
    {<<"searching", "analyzing">>, <<"analyzing", "completed">>,
     <<"searching", "failed">>, <<"analyzing", "failed">>}

\* C1: a task record is created in status searching, and its stored status
\* changes only along searching -> analyzing -> completed or from searching or
\* analyzing to failed; completed and failed are never left.
C1_StatusTransitions ==
    [][/\ \A t \in DOMAIN tasks' \ DOMAIN tasks : tasks'[t].status = "searching"
       /\ \A t \in DOMAIN tasks \cap DOMAIN tasks' :
             tasks'[t].status # tasks[t].status
                => <<tasks[t].status, tasks'[t].status>> \in AllowedStatusSteps]_vars

\* a task that failed after the provider had returned (from analyzing)
C1_FailedFromAnalyzing ==
    \E t \in DOMAIN tasks :
        tasks[t].status = "failed" /\ routine[t].fetched /\ tasks[t].totalJobs > 0

\* C2: the progress a poll reports for a task never decreases, from one state
\* of the store to the next and from one poll of the task to the next poll, and
\* it is 100 whenever the task's status is completed.
C2_ProgressMonotone ==
    /\ [](\A t \in DOMAIN tasks :
             tasks[t].status = "completed" => PollResponse(t).progress = 100)
    /\ [][\A t \in DOMAIN tasks \cap DOMAIN tasks' :
             PollResponse(t)'.progress >= PollResponse(t).progress]_vars
    /\ [][(lastPoll'.id = lastPoll.id /\ lastPoll.response.http = 200
              /\ lastPoll'.response.http = 200)
             => lastPoll'.response.progress >= lastPoll.response.progress]_vars

\* a poll saw progress 60 (3 of 5 jobs) and the task has completed since
C2_PolledMidwayThenCompleted ==
    /\ lastPoll.id \in DOMAIN tasks
    /\ lastPoll.response.progress = 60
    /\ tasks[lastPoll.id].status = "completed"
    /\ tasks[lastPoll.id].progress = 100

\* the jobs whose batch has been joined
Joined(t) == IF routine[t].pc = "done" THEN Len(routine[t].calls) ELSE routine[t].i

\* C3: once scoring has started the task never fails and ends completed with
\* every job to analyze scored; every job of a joined batch is in the task's
\* jobs, with a null score if its scoring call failed and with the score its
\* call returned otherwise, whatever happened to the other calls.
C3_ScoringFailureIsolated ==
    \A t \in DOMAIN tasks :
        routine[t].calls # <<>> =>
            /\ tasks[t].status # "failed"
            /\ routine[t].pc = "done" =>
                  /\ tasks[t].status = "completed"
                  /\ Len(routine[t].calls) = ToAnalyze(routine[t].n)
            /\ Len(tasks[t].jobs) = Joined(t)
            /\ \A j \in 1..Joined(t) :
                  \E k \in 1..Len(tasks[t].jobs) :
                      /\ tasks[t].jobs[k].id = j
                      /\ tasks[t].jobs[k].atsScore =
                            (IF routine[t].calls[j].ok
                             THEN routine[t].calls[j].score ELSE Null)

\* five jobs, the call of job 2 failed, jobs 1, 3, 4 and 5 have their scores
C3_SecondJobFailedOthersScored ==
    \E t \in DOMAIN tasks :
        /\ routine[t].pc = "done"
        /\ Len(routine[t].calls) = 5
        /\ routine[t].calls[2] = Failed
        /\ \A j \in {1, 3, 4, 5} : routine[t].calls[j].ok
        /\ tasks[t].status = "completed"
        /\ \E k \in 1..5 : tasks[t].jobs[k] = [id |-> 2, atsScore |-> Null]

\* C4: at most 3 scoring calls of a task are in flight, and a call of a batch
\* is started only when every call of the batches before it has settled and
\* their jobs are in the task's jobs.
C4_BoundedBatches ==
    \A t \in TaskIds :
        /\ Cardinality(InFlight(t)) <= 3
        /\ \A j \in 1..Len(routine[t].calls) :
              \A m \in 1..(((j - 1) \div 3) * 3) :
                  /\ routine[t].calls[m].done
                  /\ t \in DOMAIN tasks =>
                        \E k \in 1..Len(tasks[t].jobs) : tasks[t].jobs[k].id = m

\* the second batch is in flight after the first was appended
C4_SecondBatchInFlight ==
    \E t \in DOMAIN tasks :
        /\ InFlight(t) = {4, 5}
        /\ Len(tasks[t].jobs) = 3

\* the errors of a routine that no try block of the routine caught
Uncaught(t) ==
    {k \in 1..Len(routine[t].thrown) : routine[t].thrown[k].step # "decrement"}

\* C5 as claimed: a routine in which any awaited call outside scoring raised
\* an error ends failed, with that error's message, and completed = true.
C5_AnyErrorFails ==
    \A t \in DOMAIN tasks :
        (routine[t].pc = "done" /\ routine[t].thrown # <<>>) =>
            /\ tasks[t].status = "failed"
            /\ tasks[t].completed
            /\ \E k \in 1..Len(routine[t].thrown) :
                  tasks[t].error = routine[t].thrown[k].msg

\* C5 amended: an error of the provider call or of a user lookup ends the task
\* failed, with that error's message, and completed = true; an error of the
\* quota decrement is caught, and a routine in which nothing else raised ends
\* completed with no error.
C5_UncaughtErrorFails ==
    \A t \in DOMAIN tasks :
        /\ \A k \in Uncaught(t) :
              /\ routine[t].pc = "done"
              /\ tasks[t].status = "failed"
              /\ tasks[t].completed
              /\ tasks[t].error = routine[t].thrown[k].msg
        /\ (Uncaught(t) = {} /\ routine[t].pc = "done") =>
              /\ tasks[t].status = "completed"
              /\ tasks[t].error = NoError

\* the quota decrement raised, then the user lookup raised and failed the task
C5_LookupFailedAfterDecrementError ==
    \E t \in DOMAIN tasks :
        /\ Len(routine[t].thrown) = 2
        /\ routine[t].thrown[1].step = "decrement"
        /\ routine[t].thrown[2].step = "lookup"
        /\ tasks[t].status = "failed"
        /\ tasks[t].error = DbError

\* C6: every task in the store that reached completed or failed has its purge
\* pending, so that it is removed when the retention window has elapsed.
C6_TerminalTaskIsPurged ==
    \A t \in DOMAIN tasks : tasks[t].completed => t \in timers

\* C7 as claimed: provided the provider call, the resume lookup and each
\* scoring call return or fail, every task that was started and is not
\* terminal is eventually terminal: completed = true with status completed or
\* failed (for every task id the one-request scenario hands out).
C7_EveryTaskTerminates ==
    \A t \in 1..OneRequest.maxRequests :
        (t \in DOMAIN tasks /\ ~tasks[t].completed)
            ~> (t \in DOMAIN tasks /\ tasks[t].completed
                   /\ tasks[t].status \in Terminal)

\* C7 amended: it is so provided the quota decrement and the user lookup of
\* the zero-result branch return or fail as well.
C7_TerminatesWhenEveryCallSettles ==
    QuotaCallsSettle =>
        \A t \in 1..OneRequest.maxRequests :
            (t \in DOMAIN tasks /\ ~tasks[t].completed)
                ~> (t \in DOMAIN tasks /\ tasks[t].completed
                       /\ tasks[t].status \in Terminal)

\* a task that went through the quota decrement and scoring and is terminal
C7_ScoredTaskTerminal ==
    \E t \in DOMAIN tasks :
        /\ Len(routine[t].calls) > 3
        /\ routine[t].calls[1].ok /\ routine[t].calls[4].ok
        /\ tasks[t].completed /\ tasks[t].atsAnalyzed /\ Len(tasks[t].jobs) > 3

\* the routine of t got zero postings from the provider
ZeroResults(t) == routine[t].fetched /\ routine[t].n = 0

\* the user lookup of the routine of t raised
LookupFailed(t) ==
    \E k \in 1..Len(routine[t].thrown) : routine[t].thrown[k].step = "lookup"

\* C8 as claimed: a task whose provider call returned zero postings ends with
\* status completed, completed = true, no jobs and a guidance payload with at
\* least one suggestion.
C8_ZeroResultsGiveGuidance ==
    \A t \in DOMAIN tasks :
        (ZeroResults(t) /\ routine[t].pc = "done") =>
            /\ tasks[t].status = "completed"
            /\ tasks[t].completed
            /\ tasks[t].jobs = <<>>
            /\ tasks[t].noJobsMessage # NoGuidance
            /\ Len(tasks[t].noJobsMessage.suggestions) >= 1

\* C8 amended: it does so when the user lookup of the zero-result branch
\* returns; when that lookup raises, the task ends failed with no guidance.
C8_ZeroResultsGiveGuidanceUnlessLookupFails ==
    \A t \in DOMAIN tasks :
        (ZeroResults(t) /\ routine[t].pc = "done") =>
            IF LookupFailed(t)
            THEN /\ tasks[t].status = "failed"
                 /\ tasks[t].completed
                 /\ tasks[t].jobs = <<>>
                 /\ tasks[t].noJobsMessage = NoGuidance
            ELSE /\ tasks[t].status = "completed"
                 /\ tasks[t].completed
                 /\ tasks[t].jobs = <<>>
                 /\ tasks[t].noJobsMessage # NoGuidance
                 /\ Len(tasks[t].noJobsMessage.suggestions) >= 1
                 /\ PollResponse(t).noJobsMessage = tasks[t].noJobsMessage

\* a zero-result task that ended completed, with its guidance
C8_ZeroResultCompleted ==
    \E t \in DOMAIN tasks :
        /\ ZeroResults(t)
        /\ tasks[t].status = "completed"
        /\ Len(tasks[t].noJobsMessage.suggestions) = 4

\* C9 as claimed: the stored status of a task whose provider call returned
\* zero postings is never analyzing.
C9_ZeroResultNeverAnalyzing ==
    \A t \in DOMAIN tasks : ZeroResults(t) => tasks[t].status # "analyzing"

\* C9 amended: the stored status of such a task is analyzing from the
\* provider's return until the task is finalised, and is then completed or
\* failed; no scoring call is made for it; and the status a poll reports for
\* it is never analyzing: it is searching until the task is finalised.
C9_ZeroResultAnalyzingUnseen ==
    \A t \in DOMAIN tasks :
        ZeroResults(t) =>
            /\ routine[t].calls = <<>>
            /\ routine[t].pc \in {"decrement", "lookupZero", "done"}
            /\ routine[t].pc # "done" =>
                  /\ tasks[t].status = "analyzing"
                  /\ PollResponse(t).status = "searching"
            /\ routine[t].pc = "done" =>
                  /\ tasks[t].status \in Terminal
                  /\ PollResponse(t).status = tasks[t].status

\* a zero-result task stored as analyzing while its user lookup is awaited
C9_ZeroResultStoredAnalyzing ==
    \E t \in DOMAIN tasks :
        /\ ZeroResults(t)
        /\ routine[t].pc = "lookupZero"
        /\ tasks[t].status = "analyzing"

\* C10: in every state, stored and as a poll reports it, completed = true
\* exactly when the status is completed or failed.
C10_CompletedIffTerminal ==
    \A t \in DOMAIN tasks :
        /\ tasks[t].completed <=> tasks[t].status \in Terminal
        /\ PollResponse(t).completed <=> PollResponse(t).status \in Terminal

\* a task finalised without scores, completed and terminal
C10_UnscoredTaskCompleted ==
    \E t \in DOMAIN tasks :
        /\ tasks[t].completed
        /\ tasks[t].status = "completed"
        /\ ~tasks[t].atsAnalyzed
        /\ Len(tasks[t].jobs) > 0

\* the statuses a poll can report for a task that is in the store
TaskStatuses == {"searching", "analyzing", "completed", "failed"}

\* C11: a poll of an id that is not in the store (never created, or purged)
\* answers 404 without any task status; a poll of an id that is in the store
\* answers 200 with the task's fields as they are stored when the poll runs
\* (the status as the poll maps it).
C11_PollNotFoundOrCurrent ==
    /\ [](lastPoll.response.http = 404 =>
             lastPoll.response.status \notin TaskStatuses)
    /\ [][lastPoll' # lastPoll =>
            IF lastPoll'.id \notin DOMAIN tasks
            THEN /\ lastPoll'.response.http = 404
                 /\ lastPoll'.response.status \notin TaskStatuses
            ELSE LET task == tasks[lastPoll'.id]  r == lastPoll'.response
                 IN /\ r.http = 200
                    /\ r.status = (IF task.status = "analyzing"
                                   THEN "searching" ELSE task.status)
                    /\ r.progress = task.progress
                    /\ r.totalJobs = task.totalJobs
                    /\ r.processedJobs = task.processedJobs
                    /\ r.completed = task.completed
                    /\ r.jobs = task.jobs
                    /\ r.error = task.error]_vars

\* the one task of the run was scored, completed and purged, and a poll of its
\* id was answered not-found
C11_PurgedTaskPolled ==
    /\ nextId = 1
    /\ routine[1].pc = "done"
    /\ routine[1].calls # <<>>
    /\ 1 \notin DOMAIN tasks
    /\ lastPoll.id = 1
    /\ lastPoll.response.http = 404

\* C12: a step that changes the record of a task in the store is a step of
\* the routine of that task, and it changes the record of no other task and
\* moves no other routine; a poll changes nothing in the store. Checked with
\* several tasks of one user in flight at once.
C12_OnlyOwnerWrites ==
    [][/\ lastPoll' # lastPoll => tasks' = tasks
       /\ \A t \in DOMAIN tasks \cap DOMAIN tasks' :
             tasks'[t] # tasks[t] =>
                /\ routine'[t] # routine[t]
                /\ lastPoll' = lastPoll
                /\ \A u \in TaskIds \ {t} :
                      /\ routine'[u] = routine[u]
                      /\ u \in DOMAIN tasks => (u \in DOMAIN tasks'
                                                  /\ tasks'[u] = tasks[u])]_vars

\* two tasks in the store at once: one is being scored, the other has been
\* finalised by its own routine
C12_TwoTasksInterleaved ==
    /\ DOMAIN tasks = {1, 2}
    /\ routine[1].pc = "scoring"
    /\ InFlight(1) = {1}
    /\ tasks[1].status = "analyzing"
    /\ routine[2].pc = "done"
    /\ tasks[2].status = "completed"
    /\ lastPoll.id = 1
    /\ lastPoll.response.http = 200

\* C13: the jobs of a task that is completed with atsAnalyzed = true are in
\* descending order of score, a null score counting as 0: of two adjacent jobs
\* the earlier has a score-or-0 at least as large as the later.
C13_SortedByScoreDescending ==
    \A t \in DOMAIN tasks :
        (tasks[t].status = "completed" /\ tasks[t].atsAnalyzed) =>
            \A k \in 1..(Len(tasks[t].jobs) - 1) :
                LET a == tasks[t].jobs[k].atsScore
                    b == tasks[t].jobs[k + 1].atsScore
                IN (IF a = Null THEN 0 ELSE a) >= (IF b = Null THEN 0 ELSE b)

\* a scored task whose first posting failed to score and was sorted behind a
\* job scored 75 and a job scored 40
C13_NullScoreSortedLast ==
    \E t \in DOMAIN tasks :
        /\ tasks[t].status = "completed"
        /\ tasks[t].atsAnalyzed
        /\ Len(tasks[t].jobs) = 3
        /\ tasks[t].jobs[1] = [id |-> 3, atsScore |-> 75]
        /\ tasks[t].jobs[2] = [id |-> 2, atsScore |-> 40]
        /\ tasks[t].jobs[3] = [id |-> 1, atsScore |-> Null]

\* C14: once a batch of a scored task has been appended, a poll reports
\* processedJobs equal to the number of jobs accumulated and progress equal to
\* 100 x processedJobs / totalJobs rounded, with the totalJobs it reports; the
\* provider returns up to 21 postings here.
C14_ProgressOfReportedTotal ==
    \A t \in DOMAIN tasks :
        (routine[t].calls # <<>> /\ Joined(t) > 0) =>
            /\ PollResponse(t).processedJobs = Len(PollResponse(t).jobs)
            /\ PollResponse(t).totalJobs > 0
            /\ PollResponse(t).progress =
                  (200 * PollResponse(t).processedJobs + PollResponse(t).totalJobs)
                      \div (2 * PollResponse(t).totalJobs)

\* C15: the jobs of a task that is completed with atsAnalyzed = true are the
\* first min(n, 20) of the n postings the provider returned, each exactly once,
\* and no scoring call was made for a posting beyond the 20th; the provider
\* returns up to 21 postings here and scoring calls can fail.
C15_FirstTwentyExactlyOnce ==
    \A t \in DOMAIN tasks :
        (tasks[t].status = "completed" /\ tasks[t].atsAnalyzed) =>
            LET n == routine[t].n
                kept == IF n <= 20 THEN n ELSE 20
            IN /\ Len(tasks[t].jobs) = kept
               /\ Len(routine[t].calls) <= kept
               /\ \A j \in 1..kept :
                     Cardinality({k \in 1..Len(tasks[t].jobs) :
                                     tasks[t].jobs[k].id = j}) = 1

\* the provider returned 21 postings, the scoring call of the 20th failed, and
\* the task completed with 20 jobs
C15_TwentyOfTwentyOne ==
    \E t \in DOMAIN tasks :
        /\ routine[t].n = 21
        /\ Len(routine[t].calls) = 20
        /\ routine[t].calls[20] = Failed
        /\ routine[t].calls[19].ok
        /\ tasks[t].status = "completed"
        /\ tasks[t].atsAnalyzed
        /\ Len(tasks[t].jobs) = 20
        /\ tasks[t].jobs[20] = [id |-> 20, atsScore |-> Null]

\* C16: a task started without a resume id whose provider call returned n >= 1
\* postings never has a scoring call and never fails, and once its routine has
\* ended it is completed, with completed = true, atsAnalyzed = false, progress
\* 100 and the n postings of the provider, unscored, as its jobs.
C16_NoResumeUnscored ==
    \A t \in DOMAIN tasks :
        (routine[t].fetched /\ ~routine[t].hasResume /\ routine[t].n >= 1) =>
            /\ routine[t].calls = <<>>
            /\ routine[t].pc \in {"decrement", "done"}
            /\ tasks[t].status # "failed"
            /\ routine[t].pc = "done" =>
                  /\ tasks[t].status = "completed"
                  /\ tasks[t].completed
                  /\ ~tasks[t].atsAnalyzed
                  /\ tasks[t].progress = 100
                  /\ tasks[t].jobs = [j \in 1..routine[t].n |-> [id |-> j]]

\* a search without a resume id got 21 postings and ended with all 21
C16_NoResumeAllPostingsKept ==
    \E t \in DOMAIN tasks :
        /\ ~routine[t].hasResume
        /\ routine[t].n = 21
        /\ routine[t].pc = "done"
        /\ tasks[t].status = "completed"
        /\ Len(tasks[t].jobs) = 21

\* C17: no step of a start-search request that is not answered 202 (401, 404,
\* 403, 400, and 500) changes the task store, a routine (so no routine is
\* started and no provider call is made), the pending timers or the user's
\* quota; a request that is answered 202 returns a fresh task id whose record
\* is in the store when the answer is given, in status searching with progress
\* 0 and completed = false, and every other record is as it was.
C17_RejectedRequestHasNoEffect ==
    [][/\ (requests'.searchJobs # requests.searchJobs /\ served' = served) =>
             /\ tasks' = tasks
             /\ routine' = routine
             /\ timers' = timers
             /\ nextId' = nextId
             /\ user' = user
       /\ served' # served =>
             IF reply'.code # 202
             THEN /\ reply'.taskId = 0
                  /\ tasks' = tasks
                  /\ routine' = routine
                  /\ timers' = timers
                  /\ nextId' = nextId
                  /\ user' = user
             ELSE /\ reply'.taskId \notin DOMAIN tasks
                  /\ DOMAIN tasks' = DOMAIN tasks \cup {reply'.taskId}
                  /\ tasks'[reply'.taskId].status = "searching"
                  /\ tasks'[reply'.taskId].progress = 0
                  /\ ~tasks'[reply'.taskId].completed
                  /\ routine'[reply'.taskId].pc = "provider"
                  /\ \A t \in DOMAIN tasks : tasks'[t] = tasks[t]]_vars

\* the first search used up the quota and its task is still being processed;
\* the second request was refused with 403 and created nothing
C17_RefusedWhileTaskRuns ==
    /\ served = 2
    /\ reply.code = 403
    /\ nextId = 1
    /\ DOMAIN tasks = {1}
    /\ ~tasks[1].completed
    /\ routine[2] = Idle
    /\ user.jobSearchLimit = 0

\* C18: the response to a batch-score request with a resume and a jobs array
\* is a 200 with one entry for each of the first 50 jobs and no other entry;
\* the entry of a job on which quick scoring throws carries an error and score
\* 0, the entry of every other job carries that job's score, and the entries
\* are in descending order of score.
C18_BatchScoreIsolatesErrors ==
    (call.fn = "batchScore" /\ call.response # NoResponse
        /\ call.body.hasResume /\ call.body.isArray) =>
        LET jobs == call.body.jobs
            kept == IF Len(jobs) <= 50 THEN Len(jobs) ELSE 50
            r    == call.response
        IN /\ r.http = 200
           /\ Len(r.scores) = kept
           /\ \A k \in 1..kept :
                 /\ Cardinality({p \in 1..Len(r.scores) :
                                    r.scores[p].jobIndex = k - 1}) = 1
                 /\ \A p \in 1..Len(r.scores) :
                       r.scores[p].jobIndex = k - 1 =>
                          IF jobs[k].kind = "ok"
                          THEN /\ r.scores[p].score = jobs[k].score
                               /\ r.scores[p].error = NoError
                          ELSE /\ r.scores[p].score = 0
                               /\ r.scores[p].error # NoError
           /\ \A p \in 1..(Len(r.scores) - 1) :
                 r.scores[p].score >= r.scores[p + 1].score

\* a call of _evaluateHardFilters has returned
Evaluated == call.fn = "evaluateHardFilters" /\ call.response # NotEvaluated

\* C19: in every hard-filter result, passed is the conjunction of the four
\* checks, locationMatch is true, failureReasons has one entry per failed check
\* in the order work authorization, experience, education, and passed holds
\* exactly when failureReasons is empty.
C19_PassedIsConjunction ==
    Evaluated =>
        LET r == call.response
            checks == {<<1, "work authorization", r.workAuthorizationMatch>>,
                       <<2, "experience", r.experienceMatch>>,
                       <<3, "education", r.educationMatch>>}
            failed == {f \in checks : ~f[3]}
        IN /\ r.passed = (r.locationMatch /\ r.workAuthorizationMatch
                            /\ r.experienceMatch /\ r.educationMatch)
           /\ r.locationMatch
           /\ Len(r.failureReasons) = Cardinality(failed)
           /\ \A f \in failed :
                 \E p \in 1..Len(r.failureReasons) :
                     /\ r.failureReasons[p] = f[2]
                     /\ p = Cardinality({g \in failed : g[1] <= f[1]})
           /\ r.passed <=> r.failureReasons = <<>>

\* a result in which the three checks that can fail failed
C19_AllThreeFailed ==
    /\ Evaluated
    /\ ~call.response.passed
    /\ call.response.locationMatch
    /\ call.response.failureReasons = <<"work authorization", "experience", "education">>

\* the level the job requires: the level of the first entry of the degree
\* table whose keyword the required-education text contains, 0 if there is none
FirstMatchLevel ==
    LET has == call.body.job.requiredEducation.has
        hits == {k \in 1..Len(DegreeTable) : DegreeTable[k].degree \in has}
    IN IF hits = {} THEN 0
       ELSE DegreeTable[CHOOSE k \in hits : \A m \in hits : k <= m].level

\* the candidate's highest degree or one of the education entries contains a
\* keyword of the degree table whose level is at least the required level
CandidateReaches ==
    LET resume == call.body.resume
        texts == {resume.highestDegree}
                 \cup {resume.education[k] : k \in 1..Len(resume.education)}
    IN \E text \in texts : \E k \in 1..Len(DegreeTable) :
          /\ DegreeTable[k].degree \in text.has
          /\ DegreeTable[k].level >= FirstMatchLevel

\* the candidate has neither a highest degree nor an education entry
NoDegreeFields ==
    /\ ~call.body.resume.highestDegree.given
    /\ call.body.resume.education = <<>>

\* C20 as claimed: the education filter passes whenever the job has no
\* required-education text and whenever that text contains no keyword of the
\* degree table, whatever the candidate's degree fields; otherwise it passes
\* exactly when the candidate's maximum level is at least the required level.
C20_EducationPassesWithoutRequiredLevel ==
    Evaluated =>
        (call.response.educationMatch <=>
            \/ ~call.body.job.requiredEducation.given
            \/ FirstMatchLevel = 0
            \/ CandidateReaches)

\* C20 amended: the education filter passes whenever the job has no
\* required-education text; with such a text it fails for a candidate who has
\* neither a highest degree nor an education entry, even when the text
\* contains no keyword of the degree table; for any other candidate it passes
\* when the text contains no keyword of the table, and otherwise exactly when
\* the candidate's maximum level is at least the required level.
C20_EducationFailsWithoutDegreeFields ==
    Evaluated =>
        (call.response.educationMatch <=>
            \/ ~call.body.job.requiredEducation.given
            \/ /\ ~NoDegreeFields
               /\ (FirstMatchLevel = 0 \/ CandidateReaches))

\* the job asks for an education that names no degree of the table, and a
\* candidate without degree fields failed the education filter
C20_NoDegreeFieldsFailed ==
    /\ Evaluated
    /\ call.body.job.requiredEducation = Text({})
    /\ NoDegreeFields
    /\ ~call.response.educationMatch
    /\ call.response.failureReasons = <<"education">>

\* C21: the experience filter passes for every resume when the job's minimum
\* is at most 1 year, and otherwise passes exactly when the resume's years are
\* at least 0.8 times the minimum (years counted in tenths: ten times the
\* years are at least 8 times the minimum).
C21_ExperienceThreshold ==
    (call.fn = "checkExperience" /\ call.response.done) =>
        (call.response.passed <=>
            \/ call.body.minRequired <= 1
            \/ call.body.resumeTenths >= 8 * call.body.minRequired)

\* C29: for any interleaving of one user's start-search requests and their
\* routines (no quota request and no limit update is made), the tasks that
\* have called the provider are no more than the quota the user started with,
\* and the stored jobSearchLimit is never below 0.
C29_QuotaBoundsProviderCalls ==
    (requests.getUserQuota = <<>> /\ requests.updateJobSearchLimit = <<>>) =>
        /\ Cardinality({t \in TaskIds : routine[t].pc # "idle"}) <= cfg.quota
        /\ user.jobSearchLimit >= 0

\* C30: the status a poll reports is never analyzing; for a task in the store
\* it is searching exactly when the stored status is searching or analyzing,
\* completed exactly when the stored status is completed, and failed exactly
\* when the stored status is failed.
C30_PollHidesAnalyzing ==
    /\ [](lastPoll.response.status # "analyzing")
    /\ [][(lastPoll' # lastPoll /\ lastPoll'.id \in DOMAIN tasks) =>
            LET stored == tasks[lastPoll'.id].status
                shown == lastPoll'.response.status
            IN /\ shown # "analyzing"
               /\ shown = "searching" <=> stored \in {"searching", "analyzing"}
               /\ shown = "completed" <=> stored = "completed"
               /\ shown = "failed" <=> stored = "failed"]_vars

\* a poll answered searching for a task stored as analyzing, a first batch of
\* its postings scored
C30_AnalyzingShownAsSearching ==
    /\ lastPoll.id = 1
    /\ 1 \in DOMAIN tasks
    /\ tasks[1].status = "analyzing"
    /\ routine[1].pc = "scoring"
    /\ lastPoll.response.status = "searching"
    /\ lastPoll.response.processedJobs = batchSize
    /\ tasks[1].processedJobs = batchSize

\* matchSkills has answered
Matched == call.fn = "matchSkills" /\ call.response.done

\* C24 as stated: for every resume skill list, the empty one included, and every list
\* of required skills, matchSkills(S, R, []) reports matched and missing
\* required skills that are disjoint and whose union is the synonym-normalized
\* set of R.
C24_MatchedMissingPartition ==
    (Matched /\ call.body.preferredSkills = <<>>) =>
        LET analysis == call.response.analysis
        IN /\ analysis.matchedRequired \cap analysis.missingRequired = {}
           /\ analysis.matchedRequired \cup analysis.missingRequired
                 = normalizeSkills(call.body.requiredSkills)

\* C24 amended: matchSkills(S, R, []) reports matched and missing required
\* skills that are disjoint; when S and R are both non-empty their union is
\* the synonym-normalized set of R; when S or R is empty nothing is matched
\* and the missing skills are the entries of R as given, not normalized,
\* whose normalization is the synonym-normalized set of R.
C24_PartitionUnlessEmpty ==
    (Matched /\ call.body.preferredSkills = <<>>) =>
        LET analysis == call.response.analysis
            S == call.body.resumeSkills
            R == call.body.requiredSkills
        IN /\ analysis.matchedRequired \cap analysis.missingRequired = {}
           /\ IF S = <<>> \/ R = <<>>
              THEN /\ analysis.matchedRequired = {}
                   /\ analysis.missingRequired = Elements(R)
                   /\ UNION {{normalizeSkill(skill)}
                                \cup SynonymsOf(normalizeSkill(skill)) :
                                skill \in analysis.missingRequired \ {""}}
                         = normalizeSkills(R)
              ELSE analysis.matchedRequired \cup analysis.missingRequired
                      = normalizeSkills(R)

\* an empty resume list against the required skills js and express: the
\* missing skills are the two names as given
C24_EmptyResumeRawMissing ==
    /\ Matched
    /\ call.body.resumeSkills = <<>>
    /\ call.body.requiredSkills = <<"js", "express">>
    /\ call.body.preferredSkills = <<>>
    /\ call.response.analysis.missingRequired = {"js", "express"}
    /\ call.response.analysis.missingRequired
          # normalizeSkills(call.body.requiredSkills)

\* C25 as stated: the overall skill score is between 0 and 100, and it is 0
\* whenever the required list or the resume list is empty, whatever the
\* preferred list is.
C25_ScoreZeroWithoutRequired ==
    Matched =>
        /\ call.response.analysis.overallSkillScore \in 0..10000
        /\ (call.body.requiredSkills = <<>> \/ call.body.resumeSkills = <<>>) =>
              call.response.analysis.overallSkillScore = 0

\* C25 amended: the overall skill score is between 0 and 100; it is 0
\* whenever the resume list is empty; when the required list is empty it is
\* 0.3 times the preferred match percentage, so at most 30, and it is 0 only
\* when no preferred skill is matched.
C25_ScoreZeroWithoutResume ==
    Matched =>
        LET analysis == call.response.analysis
            preferred == analysis.matchedPreferred \cup analysis.missingPreferred
        IN /\ analysis.overallSkillScore \in 0..10000
           /\ call.body.resumeSkills = <<>> => analysis.overallSkillScore = 0
           /\ call.body.requiredSkills = <<>> =>
                 /\ analysis.overallSkillScore <= 3000
                 /\ analysis.overallSkillScore = 0
                       <=> analysis.matchedPreferred = {}
                 /\ analysis.matchedPreferred # {} =>
                       analysis.overallSkillScore
                          = Round(3000 * Cardinality(analysis.matchedPreferred),
                                  Cardinality(preferred))

\* no required skill, and a resume that has every preferred skill: the score
\* is 30
C25_PreferredAloneScores ==
    /\ Matched
    /\ call.body.requiredSkills = <<>>
    /\ call.body.resumeSkills = <<"java">>
    /\ call.body.preferredSkills = <<"java">>
    /\ call.response.analysis.overallSkillScore = 3000

\* matchSkills has answered the request of the scenario: resume skills
\* javascript and node, required skills js and express
ScenarioMatched ==
    /\ Matched
    /\ call.body.resumeSkills = <<"javascript", "node">>
    /\ call.body.requiredSkills = <<"js", "express">>

\* C26 as stated: in the scenario the matched required skills are
\* {javascript}, the missing ones {express} and the required match percentage
\* is 50.
C26_SynonymsNotCounted ==
    ScenarioMatched =>
        /\ call.response.analysis.matchedRequired = {"javascript"}
        /\ call.response.analysis.missingRequired = {"express"}
        /\ call.response.analysis.requiredMatchPercentage = 5000

\* C26 amended: in the scenario the matched required skills are javascript
\* and its four synonyms, the missing ones express and its two synonyms, and
\* the required match percentage is 62.5; for all non-empty lists every name
\* of the synonym-normalized required set is reported once, as matched or as
\* missing, and the percentage is the share of the matched names among them.
C26_SynonymsCounted ==
    /\ ScenarioMatched =>
          /\ call.response.analysis.matchedRequired
                = {"javascript", "js", "ecmascript", "node.js", "nodejs"}
          /\ call.response.analysis.missingRequired
                = {"express", "expressjs", "express.js"}
          /\ call.response.analysis.requiredMatchPercentage = 6250
    /\ (Matched /\ call.body.resumeSkills # <<>>
                /\ call.body.requiredSkills # <<>>) =>
          LET analysis == call.response.analysis
              required == analysis.matchedRequired \cup analysis.missingRequired
          IN /\ required = normalizeSkills(call.body.requiredSkills)
             /\ analysis.matchedRequired \cap analysis.missingRequired = {}
             /\ required # {} =>
                   analysis.requiredMatchPercentage
                      = Round(10000 * Cardinality(analysis.matchedRequired),
                              Cardinality(required))

\* the scenario answered with five matched and three missing names
C26_ScenarioAnswered ==
    /\ ScenarioMatched
    /\ Cardinality(call.response.analysis.matchedRequired) = 5
    /\ Cardinality(call.response.analysis.missingRequired) = 3

\* quickScore has answered
Scored27 == call.fn = "quickScore" /\ call.response.done

\* C27: quickScore matches the resume against the skills extracted from the
\* job description whenever the job has no required-skills list or an empty
\* one, and against the required-skills list as given only when that list is
\* not empty.
C27_EmptyListExtracted ==
    Scored27 =>
        LET job == call.body.job
            resume == call.body.resume
            used == IF job.requiredSkills.given /\ job.requiredSkills.list # <<>>
                    THEN job.requiredSkills.list
                    ELSE extractSkillsFromText(job.description)
            analysis == matchSkills(resume.skills, used, <<>>)
        IN /\ call.response.matchedSkills = analysis.matchedRequired
           /\ call.response.missingSkills = analysis.missingRequired
           /\ call.response.skillMatchPercentage = analysis.requiredMatchPercentage

\* analyze has answered
Analyzed == call.fn = "analyze" /\ call.response.done

\* C22: analyze returns relevanceScore = null and overallMatchPercentage = 0
\* exactly when the hard filters failed; when they passed,
\* overallMatchPercentage is relevanceScore.weightedTotal; in both cases the
\* result carries the skill analysis that matchSkills gives for the skills of
\* the resume and the required and preferred skills of the job.
C22_RelevanceOnlyWhenPassed ==
    Analyzed =>
        LET result == call.response
            resume == call.body.resume
            job == call.body.jobDescription
            passed == EvaluateHardFilters(ForFilters(resume), job).passed
        IN /\ result.hardFilters.passed = passed
           /\ (~result.relevanceScore.given /\ result.overallMatchPercentage = 0)
                 <=> ~passed
           /\ passed =>
                 /\ result.relevanceScore.given
                 /\ result.overallMatchPercentage
                       = result.relevanceScore.weightedTotal
           /\ result.skillAnalysis
                 = matchSkills(resume.skills, job.requiredSkills,
                               job.preferredSkills)
           /\ result.matchedSkills = result.skillAnalysis.matchedRequired
           /\ result.missingSkills = result.skillAnalysis.missingRequired

\* a resume that failed the hard filters, analyzed without a relevance score
\* and with its matched skills
C22_FailedWithSkillAnalysis ==
    /\ Analyzed
    /\ ~call.response.hardFilters.passed
    /\ ~call.response.relevanceScore.given
    /\ call.response.overallMatchPercentage = 0
    /\ call.response.skillAnalysis.matchedRequired # {}

\* the six scores of a relevance score
ScoreNames == {"skillsScore", "experienceScore", "projectsScore",
               "keywordsScore", "summaryScore", "educationScore"}

\* the six weights of a weight set
WeightNames == {"skills", "experience", "projects", "keywords", "summary",
                "education"}

\* the sum of the weights of a weight set, in hundredths
WeightSum(weights) ==
    weights.skills + weights.experience + weights.projects + weights.keywords
      + weights.summary + weights.education

\* C23: the weights of every built-in weight set sum to 1.0, and each of the
\* six scores and the weighted total of a relevance score calculated with a
\* built-in weight set, for a resume with non-negative experience, are
\* between 0 and 100.
C23_ScoresWithinRange ==
    /\ \A weights \in {SOFTWARE_ENGINEER, FRESHER_INTERN, MANAGER_LEAD, DEFAULT} :
          /\ WeightSum(weights) = 100
          /\ \A name \in WeightNames : weights[name] \in 0..100
    /\ (call.fn = "calculateRelevanceScore" /\ call.response.given) =>
          /\ \A name \in ScoreNames : call.response[name] \in 0..10000
          /\ call.response.weightedTotal \in 0..10000
          /\ call.response.weightsUsed
                \in {SOFTWARE_ENGINEER, FRESHER_INTERN, MANAGER_LEAD, DEFAULT}

\* a project that matches the job's description word for word: the projects
\* score is 100, the bonus of 5 for the project cut off
C23_ProjectsScoreCapped ==
    /\ call.fn = "calculateRelevanceScore"
    /\ call.response.given
    /\ Len(call.body.resume.projects) = 1
    /\ call.body.jobDescription.description.words = JavaProject
    /\ call.response.projectsScore = 10000

\* the tip of a subject when its condition holds
Tip(condition, subject) == IF condition THEN <<subject>> ELSE <<>>

\* the tips on the skills and on the certifications, whose conditions read
\* the skill analysis and the resume only
SkillsTip == Tip(call.response.skillAnalysis.missingRequired # {}, "skills")

CertificationsTip ==
    Tip(call.body.resume.certifications = <<>>
          /\ call.response.skillAnalysis.missingRequired # {}, "certifications")

\* the tips whose conditions read the relevance score, in their order
ScoreTips ==
    LET score == call.response.relevanceScore
    IN Tip(score.experienceScore < 7000, "experience")
       \o Tip(score.projectsScore < 5000
                /\ call.body.jobDescription.roleType # "manager", "projects")
       \o Tip(score.keywordsScore < 6000, "keywords")
       \o Tip(call.body.resume.summary = <<>> \/ score.summaryScore < 5000,
              "summary")

\* C28 as stated: the recommendations are the tips whose condition holds, in
\* the order skills, experience, projects, keywords, summary, certifications,
\* cut to the first five; the summary tip is there whenever the resume has no
\* summary; there are never more than five.
C28_TipsInOrderCutToFive ==
    Analyzed =>
        /\ Len(call.response.recommendations) <= 5
        /\ call.body.resume.summary = <<>> =>
              "summary" \in Elements(call.response.recommendations)
        /\ call.response.relevanceScore.given =>
              call.response.recommendations
                 = FirstFive(SkillsTip \o ScoreTips \o CertificationsTip)

\* C28 amended: when the hard filters passed, the recommendations are the
\* tips whose condition holds, in the order skills, experience, projects,
\* keywords, summary, certifications, cut to the first five, so the summary
\* tip is there whenever the resume has no summary; when the hard filters
\* failed there is no relevance score and the recommendations are the skills
\* tip and the certifications tip alone, each when its condition holds, with
\* no summary tip even for a resume without summary; there are never more
\* than five.
C28_ScoreTipsOnlyWhenPassed ==
    Analyzed =>
        /\ Len(call.response.recommendations) <= 5
        /\ IF call.response.hardFilters.passed
           THEN /\ call.response.recommendations
                      = FirstFive(SkillsTip \o ScoreTips \o CertificationsTip)
                /\ call.body.resume.summary = <<>> =>
                      "summary" \in Elements(call.response.recommendations)
           ELSE call.response.recommendations = SkillsTip \o CertificationsTip

\* all six conditions hold for a resume that passed the hard filters: the
\* certifications tip is cut off
C28_SixthTipCut ==
    /\ Analyzed
    /\ call.response.hardFilters.passed
    /\ call.body.resume.certifications = <<>>
    /\ call.response.skillAnalysis.missingRequired # {}
    /\ call.response.recommendations
          = <<"skills", "experience", "projects", "keywords", "summary">>

====
